---------------------------- MODULE Spec2Model ----------------------------
(***************************************************************************)
(* A model of the cc_proxy reverse proxy: the UpstreamSelector (two-layer  *)
(* round-robin over upstreams and their api_keys), the LocalOptimizer, the *)
(* AtomicConfig store with its hot reload, and the claude_proxy request    *)
(* pipeline.                                                               *)
(*                                                                         *)
(* Three specifications share the definitions of this module:              *)
(*   SpecSelector  callers invoke UpstreamSelector::next() concurrently on *)
(*                 one selector; a history records each call.              *)
(*   SpecOpt       try_local_optimization applied to a bounded set of      *)
(*                 (body, url, flags) inputs.                              *)
(*   Spec          requests run the claude_proxy pipeline concurrently     *)
(*                 with config-file writes and AtomicConfig::reload().     *)
(***************************************************************************)
EXTENDS Integers, Sequences, FiniteSets, TLC

VARIABLES
    selectors,          \* heap of constructed UpstreamSelector objects, by id
    caller,             \* SpecSelector: each caller's position inside next()
    calls,              \* SpecSelector: history of next() calls, in fetch_add order
    opt_in,             \* SpecOpt: the (body, url, flags) input
    opt_out,            \* SpecOpt: the result of try_local_optimization
    inner,              \* AtomicConfig.inner: the published Config snapshot
    upstream_selector,  \* AtomicConfig.upstream_selector: Option<selector id>
    file,               \* the content of the config file on disk
    events,             \* pending "closed after write" events of the watcher
    reload,             \* the watcher thread's position inside reload()
    req,                \* each request task's position inside claude_proxy
    upstream_log,       \* every request sent to an upstream, in order
    stats,              \* RequestStats: the shared counters
    sse,                \* SpecSse: one streamed (SSE) upstream response
    call,               \* SpecFilter, SpecTranslate: one call of a body rewriter
    budget              \* remaining arrivals and file writes (bounds the run)

vars == <<selectors, caller, calls, opt_in, opt_out, inner, upstream_selector,
          file, events, reload, req, upstream_log, stats, sse, call, budget>>

selectorVars == <<caller, calls>>
optVars == <<opt_in, opt_out>>
storeVars == <<inner, upstream_selector, file, events, reload>>
pipelineVars == <<req, upstream_log, stats, budget>>
auxVars == <<sse, call>>

-----------------------------------------------------------------------------
(* Bounds of the model *)

\* most upstreams in a selector of SpecSelector
MaxUpstreams == 2
\* most api_keys of one upstream in SpecSelector
MaxKeys == 3
\* width of the selector cursor in bits (usize in the source)
CursorBits == 3
\* calls to next() made beyond the first wraparound of the cursor
ExtraCalls == 2

RECURSIVE Pow2(_)
Pow2(n) == IF n = 0 THEN 1 ELSE 2 * Pow2(n - 1)

\* the modulus of the cursor: AtomicUsize wraps at 2^w
Modulus == Pow2(CursorBits)

MaxCalls == Modulus + ExtraCalls

\* the threads that call next() concurrently in SpecSelector
Callers == {"c1", "c2"}

-----------------------------------------------------------------------------
(* Option<T>: None is the empty sequence, Some(x) the one-element sequence *)

None == <<>>
Some(x) == <<x>>
IsSome(o) == o # <<>>
Unwrap(o) == o[1]

-----------------------------------------------------------------------------
(* UpstreamConfig and UpstreamSelector *)

EndpointNames == <<"https://a.example/v1", "https://b.example/v1",
                   "https://c.example/v1", "https://d.example/v1">>
ModelNames == <<"", "model-b", "model-c", "">>
KeyNames == << <<"a1", "a2", "a3", "a4", "a5">>,
               <<"b1", "b2", "b3", "b4", "b5">>,
               <<"c1", "c2", "c3", "c4", "c5">>,
               <<"d1", "d2", "d3", "d4", "d5">> >>

\* the i-th upstream of the model with its first k api_keys
MkUpstream(i, k) ==
    [endpoint |-> EndpointNames[i],
     model    |-> ModelNames[i],
     api_keys |-> SubSeq(KeyNames[i], 1, k),
     oai_api  |-> (i % 2 = 0)]

\* the lists of n upstreams whose key counts are drawn from 0..MaxKeys
ListsOfLen(n) ==
    { [i \in 1..n |-> MkUpstream(i, ks[i])] : ks \in [1..n -> 0..MaxKeys] }

UpstreamLists == UNION { ListsOfLen(n) : n \in 1..MaxUpstreams }

\* UpstreamSelector::new
SelectorNew_keepEmpty(upstreams) == Some([upstreams |-> upstreams, next_index |-> 0])
SelectorNew(upstreams) ==
    IF upstreams = <<>>
    THEN None
    ELSE Some([upstreams |-> upstreams, next_index |-> 0])

\* the value next_index holds after fetch_add(1): AtomicUsize wraps
FetchAdd_lost(v) == v
FetchAdd(v) == (v + 1) % Modulus

UpstreamIdx(global_idx, upstream_count) == global_idx % upstream_count

KeyIdx_nodiv(global_idx, upstream_count, key_count) == global_idx % key_count
KeyIdx_wrongdiv(global_idx, upstream_count, key_count) ==
    (global_idx \div key_count) % key_count
KeyIdx(global_idx, upstream_count, key_count) ==
    (global_idx \div upstream_count) % key_count

\* the api_key is always taken from the first upstream of the list
Selection_firstUpstreamKey(upstreams, global_idx) ==
    LET upstream_count == Len(upstreams)
        upstream_idx == UpstreamIdx(global_idx, upstream_count)
        upstream == upstreams[upstream_idx + 1]
        api_key == IF upstreams[1].api_keys = <<>>
                   THEN ""
                   ELSE LET key_count == Len(upstreams[1].api_keys)
                            key_idx == KeyIdx(global_idx, upstream_count, key_count)
                        IN upstreams[1].api_keys[key_idx + 1]
    IN [upstream_idx |-> upstream_idx,
        endpoint     |-> upstream.endpoint,
        model        |-> upstream.model,
        api_key      |-> api_key,
        oai_api      |-> upstream.oai_api]

\* the tuple next() returns for the fetched global_idx
Selection(upstreams, global_idx) ==
    LET upstream_count == Len(upstreams)
        upstream_idx == UpstreamIdx(global_idx, upstream_count)
        upstream == upstreams[upstream_idx + 1]
        api_key == IF upstream.api_keys = <<>>
                   THEN ""
                   ELSE LET key_count == Len(upstream.api_keys)
                            key_idx == KeyIdx(global_idx, upstream_count, key_count)
                        IN upstream.api_keys[key_idx + 1]
    IN [upstream_idx |-> upstream_idx,
        endpoint     |-> upstream.endpoint,
        model        |-> upstream.model,
        api_key      |-> api_key,
        oai_api      |-> upstream.oai_api]

\* next() on a selector whose list is empty returns None before touching the cursor
NextIsNone(sel) == sel.upstreams = <<>>


\* next() as one atomic call: the returned Option and the cursor it leaves
SelectorNext(sel) ==
    IF NextIsNone(sel)
    THEN [ret |-> None, next_index |-> sel.next_index]
    ELSE [ret |-> Some(Selection(sel.upstreams, sel.next_index)),
          next_index |-> FetchAdd(sel.next_index)]

-----------------------------------------------------------------------------
(* Text and JSON values.  A text is a sequence of atoms: an atom is a run of *)
(* characters that the program's substring tests treat as a unit (a marker   *)
(* phrase, a tag, a shell word, a run of whitespace).                        *)

WhitespaceAtoms == {" ", "\n", "\n\n"}

\* str::to_lowercase / to_ascii_lowercase on one atom
Lower(atom) ==
    CASE atom = "Count" -> "count"
      [] atom = "COUNT_TOKENS" -> "count_tokens"
      [] atom = "FilePaths" -> "filepaths"
      [] atom = "Extract any file paths" -> "extract any file paths"
      [] OTHER -> atom

\* str::contains
Contains(text, marker) == \E i \in 1..Len(text) : text[i] = marker
\* str::to_lowercase().contains
ContainsLower(text, marker) == \E i \in 1..Len(text) : Lower(text[i]) = marker

\* str::find and str::rfind, as 1-based positions; 0 when there is no match
Find(text, marker) ==
    IF Contains(text, marker)
    THEN CHOOSE i \in 1..Len(text) :
            text[i] = marker /\ \A j \in 1..(i - 1) : text[j] # marker
    ELSE 0
RFind(text, marker) ==
    IF Contains(text, marker)
    THEN CHOOSE i \in 1..Len(text) :
            text[i] = marker /\ \A j \in (i + 1)..Len(text) : text[j] # marker
    ELSE 0

RECURSIVE TrimStart(_)
TrimStart(text) ==
    IF text # <<>> /\ Head(text) \in WhitespaceAtoms THEN TrimStart(Tail(text)) ELSE text
RECURSIVE TrimEnd(_)
TrimEnd(text) ==
    IF text # <<>> /\ text[Len(text)] \in WhitespaceAtoms
    THEN TrimEnd(SubSeq(text, 1, Len(text) - 1))
    ELSE text
\* str::trim
Trim(text) == TrimEnd(TrimStart(text))

\* a JSON value in the place of "content" or "system": absent, a string, or an
\* array of blocks
AbsentContent == [kind |-> "absent", text |-> <<>>, blocks |-> <<>>]
StrContent(t) == [kind |-> "string", text |-> t, blocks |-> <<>>]
ArrContent(bs) == [kind |-> "array", text |-> <<>>, blocks |-> bs]

TextBlock(t) == [type |-> "text", text |-> Some(t), thinking |-> None]
ThinkingBlock(t) == [type |-> "thinking", text |-> None, thinking |-> Some(t)]
\* a block without a "text" string (an image, a tool_use)
OtherBlock(ty) == [type |-> ty, text |-> None, thinking |-> None]

Message(role, content) == [role |-> role, content |-> content, reasoning_content |-> None]
Tool(description) == [description |-> description]

\* a JSON object without any of the fields the program reads
EmptyObject ==
    [model      |-> None,
     max_tokens |-> None,
     system     |-> AbsentContent,
     messages   |-> None,
     tools      |-> None,
     thinking   |-> None]

\* request body bytes: kind is "empty" (no bytes), "invalid" (not JSON),
\* "nonobject" (JSON, but not an object) or "object"; canon says whether the
\* bytes are exactly serde_json's serialisation of val
Bytes(kind, canon, val) == [kind |-> kind, canon |-> canon, val |-> val]
EmptyBytes == Bytes("empty", FALSE, EmptyObject)
InvalidBytes == Bytes("invalid", FALSE, EmptyObject)
NonObjectBytes == Bytes("nonobject", TRUE, EmptyObject)
ObjectBytes(val) == Bytes("object", FALSE, val)

\* serde_json::from_slice::<Value>(body).ok()
FromSlice(body) ==
    IF body.kind \in {"nonobject", "object"} THEN Some(body.val) ELSE None
\* serde_json::to_vec(&value)
ToVec(kind, val) == Bytes(kind, TRUE, val)

-----------------------------------------------------------------------------
(* optimization/detection.rs *)

HISTORY_ANALYSIS_PARSE == "You are an expert at analyzing git history."
TITLE_GENERATION_PHRASE == "Analyze if this message indicates a new conversation topic."
SUGGESTION_MODE_MARKER == "[SUGGESTION MODE:"
COMMAND_MARKER == "Command:"
OUTPUT_MARKER == "Output:"

IsCountTokensUrl(url) == ContainsLower(url, "count_tokens")

GetMessages(request) == request.messages
GetSystem(request) ==
    IF request.system.kind = "array" THEN Some(request.system.blocks) ELSE None
MessageRole(message) == message.role

RECURSIVE JoinBlockTexts(_)
JoinBlockTexts(blocks) ==
    IF blocks = <<>> THEN <<>>
    ELSE LET block == Head(blocks)
             piece == IF IsSome(block.text) THEN Unwrap(block.text)
                      ELSE IF IsSome(block.thinking) THEN Unwrap(block.thinking)
                      ELSE <<>>
         IN piece \o JoinBlockTexts(Tail(blocks))

ExtractTextFromContent(content) ==
    CASE content.kind = "string" -> content.text
      [] content.kind = "array" -> JoinBlockTexts(content.blocks)
      [] OTHER -> <<>>

ExtractMessageText(message) == ExtractTextFromContent(message.content)
\* the "text" of a system element is a string when present
ExtractSystemText(element) ==
    IF IsSome(element.text) THEN Unwrap(element.text) ELSE <<>>

SingleUserMessage(request) ==
    /\ IsSome(GetMessages(request))
    /\ Len(Unwrap(GetMessages(request))) = 1
    /\ MessageRole(Unwrap(GetMessages(request))[1]) = "user"

IsQuotaCheckRequest(request) ==
    /\ request.max_tokens = Some(1)
    /\ SingleUserMessage(request)
    /\ ContainsLower(ExtractMessageText(Unwrap(GetMessages(request))[1]), "count")

DetectPrefixCommand(request) ==
    IF ~SingleUserMessage(request) THEN None
    ELSE LET content == ExtractMessageText(Unwrap(GetMessages(request))[1])
         IN IF ~Contains(content, "<policy_spec>") \/ ~Contains(content, COMMAND_MARKER)
            THEN None
            ELSE Some(Trim(SubSeq(content, RFind(content, COMMAND_MARKER) + 1,
                                  Len(content))))

LastSystemContains(request, phrase) ==
    /\ IsSome(GetSystem(request))
    /\ Unwrap(GetSystem(request)) # <<>>
    /\ LET system == Unwrap(GetSystem(request))
       IN Contains(ExtractSystemText(system[Len(system)]), phrase)

IsHistoricalAnalysisRequest(request) ==
    LastSystemContains(request, HISTORY_ANALYSIS_PARSE)

IsTitleGenerationRequest(request) ==
    LastSystemContains(request, TITLE_GENERATION_PHRASE)

IsSuggestionModeRequest(request) ==
    /\ IsSome(GetMessages(request))
    /\ \E i \in 1..Len(Unwrap(GetMessages(request))) :
          LET message == Unwrap(GetMessages(request))[i]
          IN /\ MessageRole(message) = "user"
             /\ Contains(ExtractMessageText(message), SUGGESTION_MODE_MARKER)

\* the first position at or after from where the text holds an atom of the set
FindAnyFrom(text, atoms, from) ==
    IF \E i \in from..Len(text) : text[i] \in atoms
    THEN CHOOSE i \in from..Len(text) :
            text[i] \in atoms /\ \A j \in from..(i - 1) : text[j] \notin atoms
    ELSE 0

\* atoms that contain the character '<'
AngleAtoms == {"<filepaths>", "<policy_spec>", "<system-reminder>"}

CutAt(text, atoms) ==
    IF FindAnyFrom(text, atoms, 1) = 0 THEN text
    ELSE Trim(SubSeq(text, 1, FindAnyFrom(text, atoms, 1) - 1))

DetectFilepathExtractionRequest(request) ==
    IF ~SingleUserMessage(request) THEN None
    ELSE IF IsSome(request.tools) /\ Unwrap(request.tools) # <<>> THEN None
    ELSE LET content == ExtractMessageText(Unwrap(GetMessages(request))[1])
             user_has_filepaths ==
                 ContainsLower(content, "filepaths") \/ ContainsLower(content, "<filepaths>")
             system_text == ExtractTextFromContent(request.system)
             system_has_extract ==
                 \/ ContainsLower(system_text, "extract any file paths")
                 \/ ContainsLower(system_text, "file paths that this command")
             command_start == Find(content, COMMAND_MARKER)
             output_marker == FindAnyFrom(content, {OUTPUT_MARKER}, command_start + 1)
         IN IF ~Contains(content, COMMAND_MARKER) \/ ~Contains(content, OUTPUT_MARKER)
            THEN None
            ELSE IF ~user_has_filepaths /\ ~system_has_extract THEN None
            ELSE IF output_marker = 0 THEN None
            ELSE Some([command |-> Trim(SubSeq(content, command_start + 1,
                                              output_marker - 1)),
                       output  |-> CutAt(CutAt(Trim(SubSeq(content, output_marker + 1,
                                                           Len(content))),
                                               AngleAtoms),
                                         {"\n\n"})])

-----------------------------------------------------------------------------
(* optimization/command_utils.rs, on commands whose atoms are shell words *)

\* words that contain a backtick or the two characters $(
InjectionAtoms == {"BACKTICK-id-BACKTICK", "$(id)"}
\* words that start with '-'
DashAtoms == {"-m", "-e", "-n", "--env=x"}
\* words that contain '='
EqualsAtoms == {"FOO=1", "BAR=2", "--env=x"}

\* without quotes or backslashes a word is a maximal run of non-whitespace
SplitShellWords(input) == SelectSeq(input, LAMBDA a : a \notin WhitespaceAtoms)

IsTwoWordCommand(command) ==
    command \in {"git", "npm", "docker", "kubectl", "cargo", "go", "pip", "yarn"}
IsListingCommand(command) ==
    command \in {"ls", "dir", "find", "tree", "pwd", "cd", "mkdir", "rmdir", "rm"}
IsReadingCommand(command) ==
    command \in {"cat", "head", "tail", "less", "more", "bat", "type"}
IsFlagWithArgument(flag) == flag \in {"-e", "-f", "-m", "-A", "-B", "-C"}

\* the number of leading KEY=VALUE words
RECURSIVE EnvPrefixLen(_)
EnvPrefixLen(parts) ==
    IF parts # <<>> /\ Head(parts) \in EqualsAtoms /\ Head(parts) \notin DashAtoms
    THEN 1 + EnvPrefixLen(Tail(parts))
    ELSE 0

\* a two-word command followed by a flag falls through to the env-prefix case
ExtractCommandPrefix_fallThrough(command) ==
    IF \E i \in 1..Len(command) : command[i] \in InjectionAtoms
    THEN <<"command_injection_detected">>
    ELSE LET parts == SplitShellWords(command)
             command_start == EnvPrefixLen(parts)
             env_prefix == SubSeq(parts, 1, command_start)
             command_parts == SubSeq(parts, command_start + 1, Len(parts))
         IN IF parts = <<>> THEN <<"none">>
            ELSE IF command_start >= Len(parts) THEN <<"none">>
            ELSE IF /\ IsTwoWordCommand(command_parts[1])
                    /\ Len(command_parts) > 1
                    /\ command_parts[2] \notin DashAtoms
                 THEN <<command_parts[1], command_parts[2]>>
            ELSE IF env_prefix = <<>> THEN <<command_parts[1]>>
            ELSE env_prefix \o <<command_parts[1]>>

\* the result is the sequence of words that the source joins with single spaces
ExtractCommandPrefix(command) ==
    IF \E i \in 1..Len(command) : command[i] \in InjectionAtoms
    THEN <<"command_injection_detected">>
    ELSE LET parts == SplitShellWords(command)
             command_start == EnvPrefixLen(parts)
             env_prefix == SubSeq(parts, 1, command_start)
             command_parts == SubSeq(parts, command_start + 1, Len(parts))
         IN IF parts = <<>> THEN <<"none">>
            ELSE IF command_start >= Len(parts) THEN <<"none">>
            ELSE IF IsTwoWordCommand(command_parts[1]) /\ Len(command_parts) > 1
                 THEN IF command_parts[2] \notin DashAtoms
                      THEN <<command_parts[1], command_parts[2]>>
                      ELSE <<command_parts[1]>>
            ELSE IF env_prefix = <<>> THEN <<command_parts[1]>>
            ELSE env_prefix \o <<command_parts[1]>>

EMPTY_FILEPATHS_XML == <<"<filepaths>", "</filepaths>">>

BuildFilepathsXml(filepaths) ==
    IF filepaths = <<>> THEN EMPTY_FILEPATHS_XML
    ELSE <<"<filepaths>">> \o filepaths \o <<"</filepaths>">>

\* the last path component of the first word, lowercased
BaseCommand(word) ==
    CASE word = "/bin/cat" -> "cat"
      [] word = "GREP" -> "grep"
      [] OTHER -> word

\* grep's loop over the words after the command: the positional words and
\* whether -e or -f supplied the pattern
RECURSIVE GrepScan(_, _, _, _)
GrepScan(parts, skip_next, positional, pattern_provided_via_flag) ==
    IF parts = <<>>
    THEN [positional |-> positional, via_flag |-> pattern_provided_via_flag]
    ELSE LET part == Head(parts)
         IN IF skip_next
            THEN GrepScan(Tail(parts), FALSE, positional, pattern_provided_via_flag)
            ELSE IF part \in DashAtoms \/ IsFlagWithArgument(part)
            THEN GrepScan(Tail(parts), IsFlagWithArgument(part), positional,
                          pattern_provided_via_flag \/ part \in {"-e", "-f"})
            ELSE GrepScan(Tail(parts), FALSE, Append(positional, part),
                          pattern_provided_via_flag)

ExtractFilepathsFromCommand(command, output) ==
    LET parts == SplitShellWords(command)
    IN IF parts = <<>> THEN EMPTY_FILEPATHS_XML
       ELSE LET base_command == BaseCommand(parts[1])
            IN IF IsListingCommand(base_command) THEN EMPTY_FILEPATHS_XML
               ELSE IF IsReadingCommand(base_command)
               THEN BuildFilepathsXml(
                        SelectSeq(Tail(parts), LAMBDA a : a \notin DashAtoms))
               ELSE IF base_command = "grep"
               THEN LET scan == GrepScan(Tail(parts), FALSE, <<>>, FALSE)
                    IN BuildFilepathsXml(IF scan.via_flag THEN scan.positional
                                         ELSE IF scan.positional = <<>> THEN <<>>
                                         ELSE Tail(scan.positional))
               ELSE EMPTY_FILEPATHS_XML

-----------------------------------------------------------------------------
(* optimization/response_builder.rs and optimization/mod.rs *)

\* the Anthropic message envelope; its id (msg_<millis>_<seq>) is left out
BuildTextResponse(model, text, input_tokens, output_tokens, reason) ==
    Some([body |-> [type |-> "message",
                    role |-> "assistant",
                    model |-> IF model = "" THEN "unknown-model" ELSE model,
                    content |-> <<[type |-> "text", text |-> text]>>,
                    stop_reason |-> "end_turn",
                    usage |-> [input_tokens |-> input_tokens,
                               output_tokens |-> output_tokens]],
          reason |-> reason])

\* OptimizationConfig with every flag set to v
AllFlags(v) ==
    [enable_network_probe_mock       |-> v,
     enable_fast_prefix_detection    |-> v,
     enable_historical_analysis_mock |-> v,
     enable_title_generation_skip    |-> v,
     enable_suggestion_mode_skip     |-> v,
     enable_filepath_extraction_mock |-> v]

\* the chain of detectors that runs on the parsed request
DetectorChain_titleFirst(request, flags) ==
    IF flags.enable_network_probe_mock /\ IsQuotaCheckRequest(request)
    THEN BuildTextResponse("unknown-model", <<"Quota check passed.">>, 10, 5,
                           "quota_probe_mock")
    ELSE IF flags.enable_historical_analysis_mock /\ IsHistoricalAnalysisRequest(request)
    THEN BuildTextResponse("unknown-model", <<"historical analysis passed.">>, 100, 5,
                           "historical_analysis_skip")
    ELSE IF flags.enable_title_generation_skip /\ IsTitleGenerationRequest(request)
    THEN BuildTextResponse("unknown-model", <<"Conversation">>, 100, 5,
                           "title_generation_skip")
    ELSE IF flags.enable_fast_prefix_detection /\ IsSome(DetectPrefixCommand(request))
    THEN BuildTextResponse("unknown-model",
                           ExtractCommandPrefix(Unwrap(DetectPrefixCommand(request))),
                           100, 5, "fast_prefix_detection")
    ELSE IF flags.enable_suggestion_mode_skip /\ IsSuggestionModeRequest(request)
    THEN BuildTextResponse("unknown-model", <<>>, 100, 1, "suggestion_mode_skip")
    ELSE IF /\ flags.enable_filepath_extraction_mock
            /\ IsSome(DetectFilepathExtractionRequest(request))
    THEN LET hit == Unwrap(DetectFilepathExtractionRequest(request))
         IN BuildTextResponse("unknown-model",
                              ExtractFilepathsFromCommand(hit.command, hit.output),
                              100, 10, "filepath_extraction_mock")
    ELSE None
DetectorChain(request, flags) ==
    IF flags.enable_network_probe_mock /\ IsQuotaCheckRequest(request)
    THEN BuildTextResponse("unknown-model", <<"Quota check passed.">>, 10, 5,
                           "quota_probe_mock")
    ELSE IF flags.enable_historical_analysis_mock /\ IsHistoricalAnalysisRequest(request)
    THEN BuildTextResponse("unknown-model", <<"historical analysis passed.">>, 100, 5,
                           "historical_analysis_skip")
    ELSE IF flags.enable_fast_prefix_detection /\ IsSome(DetectPrefixCommand(request))
    THEN BuildTextResponse("unknown-model",
                           ExtractCommandPrefix(Unwrap(DetectPrefixCommand(request))),
                           100, 5, "fast_prefix_detection")
    ELSE IF flags.enable_title_generation_skip /\ IsTitleGenerationRequest(request)
    THEN BuildTextResponse("unknown-model", <<"Conversation">>, 100, 5,
                           "title_generation_skip")
    ELSE IF flags.enable_suggestion_mode_skip /\ IsSuggestionModeRequest(request)
    THEN BuildTextResponse("unknown-model", <<>>, 100, 1, "suggestion_mode_skip")
    ELSE IF /\ flags.enable_filepath_extraction_mock
            /\ IsSome(DetectFilepathExtractionRequest(request))
    THEN LET hit == Unwrap(DetectFilepathExtractionRequest(request))
         IN BuildTextResponse("unknown-model",
                              ExtractFilepathsFromCommand(hit.command, hit.output),
                              100, 10, "filepath_extraction_mock")
    ELSE None

TryLocalOptimization(body_bytes, request_url, flags) ==
    IF flags.enable_network_probe_mock /\ IsCountTokensUrl(request_url)
    THEN BuildTextResponse("unknown-model", <<"Max tokens passed.">>, 10, 5,
                           "max_tokens_mock")
    ELSE IF ~IsSome(FromSlice(body_bytes)) THEN None
    ELSE DetectorChain(Unwrap(FromSlice(body_bytes)), flags)

-----------------------------------------------------------------------------
(* handler/system_prompt.rs, content_tag.rs, tool_desc.rs, request.rs *)

SYSTEM_PROMPT_FILTER_MARKERS ==
    {"You are an interactive CLI tool that helps users with soft",
     "You are Claude Code",
     "You are a file search specialist for Claude Code",
     "x-anthropic-billing-header: cc_version="}

\* the table without the slash-command pair
CONTENT_TAG_FILTERS_sameTag ==
    {<<"<system-reminder>", "</system-reminder>">>,
     <<"<local-command-stdout>", "</local-command-stdout>">>,
     <<"<command-name>", "</command-name>">>,
     <<"<local-command-caveat>", "</local-command-caveat>">>}
CONTENT_TAG_FILTERS ==
    {<<"<system-reminder>", "</system-reminder>">>,
     <<"<local-command-stdout>", "</local-command-stdout>">>,
     <<"<command-name>", "</command-name>">>,
     <<"<local-command-caveat>", "</local-command-caveat>">>,
     <<"<command-name>", "</command-args>">>}

TOOLS_DESCRIPTION_FILTER_KEYWORDS ==
    {"A powerful search tool built on ripgrep",
     "Allows Claude to search the web",
     "WebFetch WILL FAIL for authenticated or private URLs.",
     "List all available sources (websites) in the Actionbook database.",
     "Search for sources (websites) by keyword.",
     "Search for website action manuals by keyword.",
     "Get complete action details by area_id, including DOM selectors and element information.",
     "Get complete action details by action ID, including DOM selectors and step-by-step instructions."}

\* the closure of system.retain: keep an element without a text string, or
\* whose text contains none of the markers
KeepSystemItem(item) ==
    \/ item.text = None
    \/ \A marker \in SYSTEM_PROMPT_FILTER_MARKERS : ~Contains(Unwrap(item.text), marker)

FilterSystemPrompts(body_bytes) ==
    LET json == FromSlice(body_bytes)
    IN IF json = None THEN None
       ELSE IF body_bytes.kind # "object" \/ Unwrap(json).system.kind # "array" THEN None
       ELSE Some(ToVec("object",
                [Unwrap(json) EXCEPT !.system =
                    ArrContent(SelectSeq(@.blocks, KeepSystemItem))]))

\* a removal test that looks for the opening tag anywhere in the text
ShouldRemoveContent_contains(text) ==
    LET trimmed == Trim(text)
    IN \E pair \in CONTENT_TAG_FILTERS :
          /\ trimmed # <<>>
          /\ Contains(trimmed, pair[1])
          /\ trimmed[Len(trimmed)] = pair[2]
ShouldRemoveContent(text) ==
    LET trimmed == Trim(text)
    IN \E pair \in CONTENT_TAG_FILTERS :
          /\ trimmed # <<>>
          /\ trimmed[1] = pair[1]
          /\ trimmed[Len(trimmed)] = pair[2]

KeepContentItem(item) ==
    item.text = None \/ ~ShouldRemoveContent(Unwrap(item.text))

\* instead of removing a tagged element, strip its outer tags
UnwrapTags(item) ==
    IF KeepContentItem(item) THEN item
    ELSE LET trimmed == Trim(Unwrap(item.text))
         IN [item EXCEPT !.text = Some(SubSeq(trimmed, 2, Len(trimmed) - 1))]
FilterMessage_unwrap(message) ==
    IF message.content.kind # "array" THEN message
    ELSE [message EXCEPT !.content =
             ArrContent([i \in 1..Len(@.blocks) |-> UnwrapTags(@.blocks[i])])]
FilterMessage(message) ==
    IF message.content.kind # "array" THEN message
    ELSE [message EXCEPT !.content = ArrContent(SelectSeq(@.blocks, KeepContentItem))]

FilterMessagesContent(body_bytes) ==
    LET json == FromSlice(body_bytes)
    IN IF json = None THEN None
       ELSE IF body_bytes.kind # "object" \/ Unwrap(json).messages = None THEN None
       ELSE LET messages == Unwrap(Unwrap(json).messages)
            IN Some(ToVec("object",
                  [Unwrap(json) EXCEPT !.messages =
                      Some([i \in 1..Len(messages) |-> FilterMessage(messages[i])])]))

ShouldRemoveToolByDescription(description) ==
    \E keyword \in TOOLS_DESCRIPTION_FILTER_KEYWORDS : Contains(description, keyword)

KeepTool(tool) ==
    tool.description = None \/ ~ShouldRemoveToolByDescription(Unwrap(tool.description))

FilterToolsByDescription(body_bytes) ==
    LET json == FromSlice(body_bytes)
    IN IF json = None THEN None
       ELSE IF body_bytes.kind # "object" \/ Unwrap(json).tools = None THEN None
       ELSE Some(ToVec("object",
                [Unwrap(json) EXCEPT !.tools = Some(SelectSeq(Unwrap(@), KeepTool))]))

\* body_bytes = filtered when the filter returns Some and the body is not empty
ApplyFilter(body_bytes, filtered) ==
    IF body_bytes.kind # "empty" /\ filtered # None THEN Unwrap(filtered) ELSE body_bytes

\* filter_req_body, after the request body was collected
FilterReqBody(collected) ==
    LET b1 == ApplyFilter(collected, FilterSystemPrompts(collected))
        b2 == ApplyFilter(b1, FilterMessagesContent(b1))
    IN ApplyFilter(b2, FilterToolsByDescription(b2))

\* override_model_in_body panics on a JSON value that is neither null nor an
\* object (IndexMut of serde_json::Value with a string key)
OverrideModelPanics(body_bytes) == body_bytes.kind = "nonobject"

OverrideModelInBody(body_bytes, model) ==
    LET json == FromSlice(body_bytes)
    IN IF json = None THEN None
       ELSE Some(ToVec("object", [Unwrap(json) EXCEPT !.model = Some(model)]))

-----------------------------------------------------------------------------
(* handler/thinking_patch.rs *)

REASONING_PLACEHOLDER == <<"[Previous reasoning not available in context]">>

FirstThinkingBlock(blocks) ==
    IF \E i \in 1..Len(blocks) : blocks[i].type = "thinking"
    THEN Some(blocks[CHOOSE i \in 1..Len(blocks) :
                        /\ blocks[i].type = "thinking"
                        /\ \A j \in 1..(i - 1) : blocks[j].type # "thinking"])
    ELSE None

ExtractThinkingText(message) ==
    IF message.content.kind # "array" THEN None
    ELSE LET block == FirstThinkingBlock(message.content.blocks)
         IN IF block = None \/ Unwrap(block).thinking = None THEN None
            ELSE LET text == Trim(Unwrap(Unwrap(block).thinking))
                 IN IF text = <<>> THEN None ELSE Some(text)

ReasoningMissingOrPlaceholder(message) ==
    \/ message.reasoning_content = None
    \/ message.reasoning_content = Some(REASONING_PLACEHOLDER)

\* the value patch_message_reasoning_content writes
ReasoningValue(message, fallback_thinking) ==
    IF ExtractThinkingText(message) # None THEN Unwrap(ExtractThinkingText(message))
    ELSE IF fallback_thinking # None THEN Unwrap(fallback_thinking)
    ELSE REASONING_PLACEHOLDER

\* patch_message_reasoning_content returns true
MessagePatched(message, fallback_thinking) ==
    /\ ReasoningMissingOrPlaceholder(message)
    /\ message.reasoning_content # Some(ReasoningValue(message, fallback_thinking))

PatchMessageReasoningContent(message, fallback_thinking) ==
    IF MessagePatched(message, fallback_thinking)
    THEN [message EXCEPT !.reasoning_content =
              Some(ReasoningValue(message, fallback_thinking))]
    ELSE message

\* the first thinking text of the conversation instead of the last
LatestThinking_first(messages) ==
    IF \E i \in 1..Len(messages) : ExtractThinkingText(messages[i]) # None
    THEN ExtractThinkingText(messages[CHOOSE i \in 1..Len(messages) :
            /\ ExtractThinkingText(messages[i]) # None
            /\ \A j \in 1..(i - 1) : ExtractThinkingText(messages[j]) = None])
    ELSE None

\* messages.iter().rev().find_map(extract_thinking_text)
LatestThinking(messages) ==
    IF \E i \in 1..Len(messages) : ExtractThinkingText(messages[i]) # None
    THEN ExtractThinkingText(messages[CHOOSE i \in 1..Len(messages) :
            /\ ExtractThinkingText(messages[i]) # None
            /\ \A j \in (i + 1)..Len(messages) : ExtractThinkingText(messages[j]) = None])
    ELSE None

PatchReasoningForThinkingMode(body_bytes) ==
    LET json == FromSlice(body_bytes)
    IN IF json = None THEN None
       ELSE IF body_bytes.kind # "object" \/ Unwrap(json).thinking # Some("enabled") THEN None
       ELSE IF Unwrap(json).messages = None THEN None
       ELSE LET messages == Unwrap(Unwrap(json).messages)
                latest_thinking == LatestThinking(messages)
                IsAssistant(i) == messages[i].role = "assistant"
                patched == \E i \in 1..Len(messages) :
                              IsAssistant(i) /\ MessagePatched(messages[i], latest_thinking)
            IN IF patched
               THEN Some(ToVec("object",
                      [Unwrap(json) EXCEPT !.messages =
                          Some([i \in 1..Len(messages) |->
                                  IF IsAssistant(i)
                                  THEN PatchMessageReasoningContent(messages[i],
                                                                    latest_thinking)
                                  ELSE messages[i]])]))
               ELSE None

-----------------------------------------------------------------------------
(* openai_compat: values of the Responses request                           *)

\* a JSON value that is not a string: k is "array", "object", "number" or
\* "null"; items are the elements of an array
JValue(k, items) == [k |-> k, items |-> items]
JArray(items) == JValue("array", items)
JNull == JValue("null", <<>>)

\* an element of such an array: an object with an optional "type" string and
\* a text, or a value that is not an object
Part(type, text) == [k |-> "object", type |-> type, text |-> text]
NumberElement(n) == [k |-> "number", type |-> None, text |-> <<n>>]

\* a string by what parses out of it: enc "text" is text that is not JSON
\* (text holds it), enc "json" is the serialisation of the value json, and
\* enc "notstring" stands for a JSON value that is not a string at all;
\* error says the characters are preceded by "[ERROR] "
PlainStr(text) == [enc |-> "text", text |-> text, json |-> JNull, error |-> FALSE]
NotAString == [enc |-> "notstring", text |-> <<>>, json |-> JNull, error |-> FALSE]
\* serde_json::to_string(&value)
ToJsonString(value) == [enc |-> "json", text |-> <<>>, json |-> value, error |-> FALSE]
\* serde_json::from_str::<Value>(s).ok()
FromStr(s) == IF s.enc = "json" /\ ~s.error THEN Some(s.json) ELSE None
\* Value::as_str
AsStr(value) == IF value.enc = "notstring" THEN None ELSE Some(value)
\* str::is_empty
IsEmptyStr(s) == s.enc = "text" /\ s.text = <<>> /\ ~s.error
\* format!("[ERROR] {s}")
ErrorPrefixed(s) == [s EXCEPT !.error = TRUE]

\* items of the "input" list; k is "object", or "other" for an element that
\* is not a JSON object
InputItem(type, role, content, call_id, output, name, arguments) ==
    [k |-> "object", type |-> type, role |-> role, content |-> content,
     call_id |-> call_id, output |-> output, name |-> name, arguments |-> arguments]
MessageItem(role, parts) ==
    InputItem(Some("message"), Some(role), Some(parts), None, None, None, None)
FunctionCallItem(call_id, name, arguments) ==
    InputItem(Some("function_call"), None, None, Some(call_id), None, Some(name),
              Some(arguments))
FunctionCallOutputItem(call_id, output) ==
    InputItem(Some("function_call_output"), None, None, Some(call_id), Some(output),
              None, None)
NotAnObjectItem == [InputItem(None, None, None, None, None, None, None) EXCEPT !.k = "other"]

\* the Responses request object, and a JSON value in its place
ResponsesRequest(model, max_output_tokens, stream, input, instructions, tools) ==
    [k |-> "object", model |-> model, max_output_tokens |-> max_output_tokens,
     stream |-> stream, input |-> input, instructions |-> instructions,
     tools |-> tools]

-----------------------------------------------------------------------------
(* openai_compat/request.rs: fix_malformed_function_call_outputs            *)

\* Vec::remove(1) when the array has more than one element
RemoveIndex1(content_array) ==
    IF Len(content_array) > 1
    THEN <<content_array[1]>> \o SubSeq(content_array, 3, Len(content_array))
    ELSE content_array

\* the first element's type becomes "output_text" when it is an object
RetypeFirst(content_array) ==
    IF content_array # <<>> /\ content_array[1].k = "object"
    THEN [content_array EXCEPT ![1].type = Some("output_text")]
    ELSE content_array

\* a test that takes any JSON output for a malformed one
OutputParsesAsArray_anyJson(item) ==
    /\ item.output # None
    /\ AsStr(Unwrap(item.output)) # None
    /\ FromStr(Unwrap(item.output)) # None

\* the output string of the item parses as a JSON array
OutputParsesAsArray(item) ==
    /\ item.output # None
    /\ AsStr(Unwrap(item.output)) # None
    /\ FromStr(Unwrap(item.output)) # None
    /\ Unwrap(FromStr(Unwrap(item.output))).k = "array"

\* the body of the loop over input
FixItem(item) ==
    IF item.k # "object" THEN item
    ELSE IF item.type # Some("function_call_output") THEN item
    ELSE IF ~OutputParsesAsArray(item) THEN item
    ELSE LET parsed_output == Unwrap(FromStr(Unwrap(item.output)))
         IN [item EXCEPT !.call_id = None,
                         !.output = None,
                         !.type = Some("message"),
                         !.role = Some("assistant"),
                         !.content = Some(RetypeFirst(RemoveIndex1(parsed_output.items)))]

\* body is a Responses request value; input is None when the field is missing
\* or not an array
FixMalformedFunctionCallOutputs(body) ==
    IF body.k # "object" THEN body
    ELSE IF body.input = None THEN body
    ELSE [body EXCEPT !.input =
             Some([i \in 1..Len(Unwrap(@)) |-> FixItem(Unwrap(@)[i])])]

-----------------------------------------------------------------------------
(* openai_compat/request.rs, media.rs, tools.rs: Anthropic request to       *)
(* Responses request                                                        *)

DEFAULT_MAX_OUTPUT_TOKENS == 4096

\* a JSON value in the place of a tool_result's content: a string, or
\* something else
StringValue(s) == [isstr |-> TRUE, s |-> s, v |-> JNull]
OtherValue(v) == [isstr |-> FALSE, s |-> PlainStr(<<>>), v |-> v]

\* content blocks of the tool protocol; id, name, input, tool_use_id, content
\* and is_error are None when the field is missing or of another type
ToolUseBlock(id, name, input) ==
    [type |-> "tool_use", text |-> None, thinking |-> None,
     id |-> id, name |-> name, input |-> input]
ToolResultBlock(tool_use_id, content, is_error) ==
    [type |-> "tool_result", text |-> None, thinking |-> None,
     tool_use_id |-> tool_use_id, content |-> content, is_error |-> is_error]
\* an image or document block with a source object
MediaBlock(type, source_type, media_type, data) ==
    [type |-> type, text |-> None, thinking |-> None,
     source |-> [type |-> source_type, media_type |-> media_type, data |-> data]]

RECURSIVE Flatten(_)
Flatten(seqs) == IF seqs = <<>> THEN <<>> ELSE Head(seqs) \o Flatten(Tail(seqs))

\* claude_image_block_to_input_image_part and
\* claude_document_block_to_input_file_part
ClaudeMediaBlockToPart(block, part_type, url_field, default_media_type) ==
    IF "source" \notin DOMAIN block THEN None
    ELSE IF block.source.type # Some("base64") THEN None
    ELSE IF block.source.data = None THEN None
    ELSE LET media_type == IF block.source.media_type = None
                           THEN default_media_type
                           ELSE Unwrap(block.source.media_type)
         IN Some([k |-> "object", type |-> Some(part_type), text |-> <<>>,
                  field |-> url_field,
                  url |-> <<"data:", media_type, ";base64,", Unwrap(block.source.data)>>])

\* claude_content_to_blocks; text strings are left as they are
ClaudeContentToBlocks(content) ==
    CASE content.kind = "string" -> <<TextBlock(content.text)>>
      [] content.kind = "array" -> content.blocks
      [] OTHER -> <<>>

TextPartType(role) == IF role = "assistant" THEN "output_text" ELSE "input_text"

\* first pass over the blocks: the part a block contributes to the message item
MessagePart(block, text_part_type) ==
    CASE block.type = "text" ->
            IF block.text # None
            THEN <<Part(Some(text_part_type), Unwrap(block.text))>>
            ELSE <<>>
      [] block.type = "image" ->
            ClaudeMediaBlockToPart(block, "input_image", "image_url", "image/png")
      [] block.type = "document" ->
            ClaudeMediaBlockToPart(block, "input_file", "file_url",
                                   "application/octet-stream")
      [] OTHER -> <<>>

\* the output string of a tool_result
ToolResultOutput(block) ==
    LET output_text ==
            IF block.content = None THEN PlainStr(<<>>)
            ELSE IF Unwrap(block.content).isstr THEN Unwrap(block.content).s
            ELSE ToJsonString(Unwrap(block.content).v)
        is_error == IF block.is_error = None THEN FALSE ELSE Unwrap(block.is_error)
    IN IF is_error /\ ~IsEmptyStr(output_text)
       THEN ErrorPrefixed(output_text)
       ELSE output_text

\* second pass over the blocks: the sibling item of a tool_use or tool_result
ToolItem(block) ==
    CASE block.type = "tool_use" ->
            <<FunctionCallItem(
                 IF block.id = None THEN "call_proxy" ELSE Unwrap(block.id),
                 IF block.name = None THEN "" ELSE Unwrap(block.name),
                 ToJsonString(IF block.input = None THEN JValue("object", <<>>)
                              ELSE Unwrap(block.input)))>>
      [] block.type = "tool_result" ->
            <<FunctionCallOutputItem(
                 IF block.tool_use_id = None THEN "" ELSE Unwrap(block.tool_use_id),
                 ToolResultOutput(block))>>
      [] OTHER -> <<>>

ClaudeMessageToResponsesInputItems(message) ==
    IF message.role = "system" THEN <<>>
    ELSE LET blocks == ClaudeContentToBlocks(message.content)
             message_parts ==
                 Flatten([i \in 1..Len(blocks) |->
                             MessagePart(blocks[i], TextPartType(message.role))])
         IN (IF message_parts # <<>>
             THEN <<MessageItem(message.role, message_parts)>>
             ELSE <<>>)
            \o Flatten([i \in 1..Len(blocks) |-> ToolItem(blocks[i])])

\* join_system_texts: trim, drop the empty ones, join with a newline
RECURSIVE JoinLines(_)
JoinLines(texts) ==
    IF texts = <<>> THEN <<>>
    ELSE IF Len(texts) = 1 THEN texts[1]
    ELSE texts[1] \o <<"\n">> \o JoinLines(Tail(texts))
IsNonEmptyText(text) == text # <<>>
JoinSystemTexts(texts) ==
    LET combined ==
            JoinLines(SelectSeq([i \in 1..Len(texts) |-> Trim(texts[i])], IsNonEmptyText))
    IN IF combined = <<>> THEN None ELSE Some(combined)

HasTextString(block) == block.type = "text" /\ block.text # None
ClaudeSystemToText(system) ==
    CASE system.kind = "string" -> Some(system.text)
      [] system.kind = "array" ->
            LET items == SelectSeq(system.blocks, HasTextString)
            IN JoinSystemTexts([i \in 1..Len(items) |-> Unwrap(items[i].text)])
      [] OTHER -> None

\* map_anthropic_tools_to_responses: a tool without a name string is dropped
MapAnthropicTool(tool) ==
    IF "name" \notin DOMAIN tool THEN <<>>
    ELSE IF tool.name = None THEN <<>>
    ELSE <<[type |-> "function", name |-> Unwrap(tool.name),
            description |-> tool.description]>>
MapAnthropicToolsToResponses(tools) ==
    Flatten([i \in 1..Len(tools) |-> MapAnthropicTool(tools[i])])

\* the input list before the repair: the items of every message, in message
\* order
ResponsesInput(messages) ==
    Flatten([i \in 1..Len(messages) |-> ClaudeMessageToResponsesInputItems(messages[i])])

\* the Responses request built from a request object
BuildResponsesRequest(object) ==
    LET max_output_tokens ==
            IF object.max_tokens # None /\ Unwrap(object.max_tokens) > 0
            THEN Unwrap(object.max_tokens)
            ELSE DEFAULT_MAX_OUTPUT_TOKENS
        system_text == ClaudeSystemToText(object.system)
        instructions_texts ==
            IF system_text # None /\ Trim(Unwrap(system_text)) # <<>>
            THEN <<Unwrap(system_text)>>
            ELSE <<>>
        out == ResponsesRequest(Unwrap(object.model), max_output_tokens, FALSE,
                                Some(ResponsesInput(Unwrap(object.messages))),
                                None, None)
        result_value == FixMalformedFunctionCallOutputs(out)
    IN [result_value EXCEPT
           !.instructions = JoinSystemTexts(instructions_texts),
           !.tools = IF object.tools = None THEN None
                     ELSE Some(MapAnthropicToolsToResponses(Unwrap(object.tools)))]

-----------------------------------------------------------------------------
(* openai_compat/request.rs: the conditions under which the translation     *)
(* fails, and the body it produces otherwise.  The produced body is of kind *)
(* "responses": the serialisation of the Responses request.                 *)

TranslationFails(body) ==
    \/ body.kind # "object"
    \/ body.val.model = None
    \/ body.val.messages = None

AnthropicRequestToResponses(body) ==
    IF TranslationFails(body) THEN None
    ELSE Some(ToVec("responses", BuildResponsesRequest(body.val)))

-----------------------------------------------------------------------------
(* Values of the variables a specification does not use *)

NoCallers == caller = None /\ calls = <<>>
NoOpt == opt_in = None /\ opt_out = None
NoStore ==
    /\ inner = None
    /\ upstream_selector = None
    /\ file = None
    /\ events = 0
    /\ reload = None
NoPipeline == req = None /\ upstream_log = <<>> /\ stats = None /\ budget = None
NoSse == sse = None
NoCall == call = None

-----------------------------------------------------------------------------
(* SpecSelector: concurrent callers of UpstreamSelector::next()             *)

IdleCaller == [pc |-> "idle", global_idx |-> 0, ordinal |-> 0]

InitSelector ==
    /\ \E upstreams \in UpstreamLists :
          selectors = <<Unwrap(SelectorNew(upstreams))>>
    /\ caller = [c \in Callers |-> IdleCaller]
    /\ calls = <<>>
    /\ NoOpt /\ NoStore /\ NoPipeline /\ NoSse /\ NoCall

\* next(), up to and including the fetch_add on next_index
NextFetchAdd(c) ==
    /\ caller[c].pc = "idle"
    /\ Len(calls) < MaxCalls
    /\ ~NextIsNone(selectors[1])
    /\ LET global_idx == selectors[1].next_index
       IN /\ selectors' = [selectors EXCEPT ![1].next_index = FetchAdd(@)]
          /\ caller' = [caller EXCEPT ![c] = [pc |-> "fetched",
                                              global_idx |-> global_idx,
                                              ordinal |-> Len(calls) + 1]]
          /\ calls' = Append(calls, [global_idx |-> global_idx, result |-> None])
    /\ UNCHANGED <<auxVars, optVars, storeVars, pipelineVars>>

\* next(), from the computation of upstream_idx to the returned tuple
NextSelect(c) ==
    /\ caller[c].pc = "fetched"
    /\ calls' = [calls EXCEPT ![caller[c].ordinal].result =
                    Some(Selection(selectors[1].upstreams, caller[c].global_idx))]
    /\ caller' = [caller EXCEPT ![c] = IdleCaller]
    /\ UNCHANGED <<auxVars, selectors, optVars, storeVars, pipelineVars>>

NextSelectorStep == \E c \in Callers : NextFetchAdd(c) \/ NextSelect(c)

SpecSelector == InitSelector /\ [][NextSelectorStep]_vars

-----------------------------------------------------------------------------
(* Claims about the selector, checked under SpecSelector *)

\* the upstream list of the selector under test
ups == selectors[1].upstreams
\* the number of calls made so far that lie before the first wraparound
BeforeWrap == IF Len(calls) < Modulus THEN Len(calls) ELSE Modulus
Done(o) == IsSome(calls[o].result)
Ret(o) == Unwrap(calls[o].result)
AllKeyed == \A u \in 1..Len(ups) : Len(ups[u].api_keys) >= 1

ExampleUpstreams == <<MkUpstream(1, 2), MkUpstream(2, 3)>>
ExampleKeys == <<"a1", "b1", "a2", "b2", "a1", "b3", "a2">>

C2_DistinctCursor ==
    /\ {calls[o].global_idx : o \in 1..BeforeWrap} = 0..(BeforeWrap - 1)
    /\ \A o1, o2 \in 1..BeforeWrap :
          o1 # o2 => calls[o1].global_idx # calls[o2].global_idx
    /\ \A c1, c2 \in Callers :
          (/\ c1 # c2
           /\ caller[c1].pc = "fetched" /\ caller[c2].pc = "fetched"
           /\ caller[c1].ordinal <= Modulus /\ caller[c2].ordinal <= Modulus)
          => caller[c1].global_idx # caller[c2].global_idx

C2_Witness ==
    /\ \A c \in Callers : caller[c].pc = "fetched"
    /\ Len(calls) >= 3
    /\ Len(calls) <= Modulus

RECURSIVE Gcd(_, _)
Gcd(a, b) == IF b = 0 THEN a ELSE Gcd(b, a % b)
Lcm(a, b) == (a * b) \div Gcd(a, b)
RECURSIVE LcmOfKeys(_, _)
LcmOfKeys(upstreams, n) ==
    IF n = 0 THEN 1
    ELSE Lcm(LcmOfKeys(upstreams, n - 1), Len(upstreams[n].api_keys))

KeyPos(o) ==
    LET keys == ups[Ret(o).upstream_idx + 1].api_keys
    IN CHOOSE j \in 1..Len(keys) : keys[j] = Ret(o).api_key

\* C4: fairness survives cursor wraparound: also across the wrap from
\* 2^w - 1 to 0 each call selects the upstream following the one selected by
\* the call before it, and the next call on the same upstream uses that
\* upstream's next key (no key repeated or skipped).
C4_WrapFair ==
    AllKeyed =>
        \A o \in 1..Len(calls) :
           \A p \in (o + 1)..Len(calls) :
              (/\ \A q \in o..p : Done(q)
               /\ Ret(p).upstream_idx = Ret(o).upstream_idx
               /\ \A q \in (o + 1)..(p - 1) :
                     Ret(q).upstream_idx # Ret(o).upstream_idx)
              => /\ Ret(o + 1).upstream_idx
                       = (Ret(o).upstream_idx + 1) % Len(ups)
                 /\ KeyPos(p) - 1
                       = (KeyPos(o) % Len(ups[Ret(o).upstream_idx + 1].api_keys))

-----------------------------------------------------------------------------
(* SpecOpt: try_local_optimization on a bounded set of inputs *)

UrlSamples ==
    { <<"/claude/v1/messages">>,
      <<"/claude/v1/messages/", "count_tokens", "?foo=bar">>,
      <<"/claude/v1/messages/", "COUNT_TOKENS">> }

UserTexts ==
    { <<"normal", " ", "chat">>,
      <<"Count">>,
      <<"<policy_spec>", "strict", "\n", "Command:", " ", "git", " ", "commit", " ", "-m">>,
      <<"hi", "\n", "[SUGGESTION MODE:">>,
      <<"Command:", " ", "cat", " ", "foo.txt", " ", "bar.md", "\n", "Output:", " ",
        "line1", "\n\n", "<filepaths>">>,
      <<"Output:", "x", "Command:", " ", "cat", " ", "foo.txt", " ", "filepaths">>,
      <<"count", "<policy_spec>", "[SUGGESTION MODE:", "Command:", "FOO=1", " ", "GREP",
        " ", "-e", "pat", "a.rs", "Output:", "FilePaths">> }

MessageSamples ==
    {None, Some(<<>>)}
    \cup { Some(<<Message("user", StrContent(t))>>) : t \in UserTexts }
    \cup { Some(<<Message("user", ArrContent(<<TextBlock(<<"Count">>),
                                              OtherBlock("image"),
                                              ThinkingBlock(<<"[SUGGESTION MODE:">>)>>))>>),
           Some(<<Message("assistant", StrContent(<<"count">>))>>),
           Some(<<Message("user", StrContent(<<"hi", "[SUGGESTION MODE:">>)),
                  Message("assistant", StrContent(<<"count">>))>>),
           Some(<<Message("assistant", StrContent(<<"[SUGGESTION MODE:">>)),
                  Message("user", AbsentContent)>>) }

SystemSamples ==
    { AbsentContent,
      StrContent(<<"Extract any file paths">>),
      ArrContent(<<>>),
      ArrContent(<<TextBlock(<<"intro", HISTORY_ANALYSIS_PARSE>>)>>),
      ArrContent(<<TextBlock(<<TITLE_GENERATION_PHRASE>>)>>),
      ArrContent(<<TextBlock(<<TITLE_GENERATION_PHRASE>>),
                   TextBlock(<<HISTORY_ANALYSIS_PARSE, TITLE_GENERATION_PHRASE>>)>>),
      ArrContent(<<TextBlock(<<HISTORY_ANALYSIS_PARSE>>), OtherBlock("text")>>) }

ToolSamples == {None, Some(<<Tool(Some(<<"Reads a file">>))>>)}

OptObjects ==
    { [EmptyObject EXCEPT !.model      = Some("claude-test"),
                          !.max_tokens = mt,
                          !.system     = sy,
                          !.messages   = ms,
                          !.tools      = tl] :
      mt \in {None, Some(1), Some(2)}, sy \in SystemSamples,
      ms \in MessageSamples, tl \in ToolSamples }

OptBodies ==
    {EmptyBytes, InvalidBytes, NonObjectBytes} \cup { ObjectBytes(o) : o \in OptObjects }

FlagNames ==
    {"enable_network_probe_mock", "enable_fast_prefix_detection",
     "enable_historical_analysis_mock", "enable_title_generation_skip",
     "enable_suggestion_mode_skip", "enable_filepath_extraction_mock"}

InitOpt ==
    /\ opt_in \in [body : OptBodies, url : UrlSamples, flags : [FlagNames -> BOOLEAN]]
    /\ opt_out = [called |-> FALSE, ret |-> None]
    /\ selectors = <<>>
    /\ NoCallers /\ NoStore /\ NoPipeline /\ NoSse /\ NoCall

CallTryLocalOptimization ==
    /\ ~opt_out.called
    /\ opt_out' = [called |-> TRUE,
                   ret |-> TryLocalOptimization(opt_in.body, opt_in.url, opt_in.flags)]
    /\ UNCHANGED <<auxVars, opt_in, selectors, selectorVars, storeVars, pipelineVars>>

SpecOpt == InitOpt /\ [][CallTryLocalOptimization]_vars

-----------------------------------------------------------------------------
(* Claims about the LocalOptimizer, checked under SpecOpt *)

\* the detectors in the order of the specification's table, each with its tag,
\* its flag and its synthesised text (None where the text is computed)
DetectorTable ==
    << [tag |-> "max_tokens_mock", flag |-> "enable_network_probe_mock",
        text |-> Some(<<"Max tokens passed.">>)],
       [tag |-> "quota_probe_mock", flag |-> "enable_network_probe_mock",
        text |-> Some(<<"Quota check passed.">>)],
       [tag |-> "historical_analysis_skip", flag |-> "enable_historical_analysis_mock",
        text |-> Some(<<"historical analysis passed.">>)],
       [tag |-> "fast_prefix_detection", flag |-> "enable_fast_prefix_detection",
        text |-> None],
       [tag |-> "title_generation_skip", flag |-> "enable_title_generation_skip",
        text |-> Some(<<"Conversation">>)],
       [tag |-> "suggestion_mode_skip", flag |-> "enable_suggestion_mode_skip",
        text |-> Some(<<>>)],
       [tag |-> "filepath_extraction_mock", flag |-> "enable_filepath_extraction_mock",
        text |-> None] >>

\* whether the trigger of the i-th detector of the table matches the input
TriggerMatches(i, in) ==
    IF i = 1 THEN IsCountTokensUrl(in.url)
    ELSE /\ IsSome(FromSlice(in.body))
         /\ LET request == Unwrap(FromSlice(in.body))
            IN CASE i = 2 -> IsQuotaCheckRequest(request)
                 [] i = 3 -> IsHistoricalAnalysisRequest(request)
                 [] i = 4 -> IsSome(DetectPrefixCommand(request))
                 [] i = 5 -> IsTitleGenerationRequest(request)
                 [] i = 6 -> IsSuggestionModeRequest(request)
                 [] i = 7 -> IsSome(DetectFilepathExtractionRequest(request))

\* the detectors that are enabled and whose trigger matches
Hits(in) ==
    { i \in 1..Len(DetectorTable) : in.flags[DetectorTable[i].flag] /\ TriggerMatches(i, in) }

FirstHit(in) == CHOOSE i \in Hits(in) : \A j \in Hits(in) : i <= j

\* C6: try_local_optimization answers with the first detector of the table
\* that is enabled and matches, and with None when there is none (so never with
\* every flag false); only the count-tokens URL detector can answer a body
\* that is not JSON.
C6_FirstMatchWins ==
    opt_out.called =>
        /\ IF Hits(opt_in) = {}
           THEN opt_out.ret = None
           ELSE /\ IsSome(opt_out.ret)
                /\ LET d == DetectorTable[FirstHit(opt_in)]
                       r == Unwrap(opt_out.ret)
                   IN /\ r.reason = d.tag
                      /\ IsSome(d.text) => r.body.content[1].text = Unwrap(d.text)
        /\ opt_in.flags = AllFlags(FALSE) => opt_out.ret = None
        /\ ~IsSome(FromSlice(opt_in.body)) =>
              (IsSome(opt_out.ret) <=>
                  (/\ opt_in.flags.enable_network_probe_mock
                   /\ IsCountTokensUrl(opt_in.url)))
        /\ (IsSome(opt_out.ret) /\ Unwrap(opt_out.ret).reason # "max_tokens_mock")
              => IsSome(FromSlice(opt_in.body))

C6_Witness ==
    /\ opt_out.called
    /\ {4, 5, 6} \subseteq Hits(opt_in)
    /\ FirstHit(opt_in) = 4
    /\ Unwrap(opt_out.ret).reason = "fast_prefix_detection"

-----------------------------------------------------------------------------
(* Spec: the claude_proxy pipeline, concurrent with config-file writes and  *)
(* AtomicConfig::reload()                                                   *)

\* how many requests arrive and how many times the config file is written
MaxArrivals == 2
MaxWrites == 1

Requests == {"r1", "r2"}

\* --- config/mod.rs ---

Config(upstream, optimizations, log) ==
    [log_req_body  |-> log,
     log_res_body  |-> FALSE,
     upstream      |-> upstream,
     optimizations |-> optimizations]

\* toml::from_str on an empty document: every field takes its serde default
DefaultConfig == Config(<<>>, AllFlags(TRUE), FALSE)

\* an upstream whose api_key cannot be put into a header value
BadKeyUpstream ==
    [endpoint |-> "https://c.example/v1",
     model    |-> "",
     api_keys |-> <<"c\n1">>,
     oai_api  |-> FALSE]

ConfigSamples ==
    { Config(<<MkUpstream(1, 2)>>, AllFlags(TRUE), FALSE),
      Config(<<MkUpstream(1, 2)>>, AllFlags(FALSE), TRUE),
      Config(<<MkUpstream(1, 2), MkUpstream(2, 1)>>, AllFlags(TRUE), FALSE),
      Config(<<MkUpstream(1, 0), BadKeyUpstream>>, AllFlags(FALSE), FALSE),
      DefaultConfig }

\* the content of the config file: missing or unreadable, not TOML of a
\* Config, or the TOML of a Config
Unreadable == [kind |-> "unreadable", config |-> DefaultConfig]
Garbage == [kind |-> "garbage", config |-> DefaultConfig]
Toml(config) == [kind |-> "toml", config |-> config]

FileSamples == {Unreadable, Garbage} \cup { Toml(c) : c \in ConfigSamples }

\* load_from_file: Ok(config) as Some(config), Err as None
LoadFromFile_lenient(content) == Some(content.config)
LoadFromFile(content) ==
    IF content.kind = "toml" THEN Some(content.config) ELSE None

\* reload(): upstream_changed
UpstreamChanged_always(old, new_config) == TRUE
UpstreamChanged_never(old, new_config) == FALSE
UpstreamChanged(old, new_config) == old.upstream # new_config.upstream

\* the heap after constructing a selector, and the Option<Arc<..>> to publish
Construct(heap, upstreams) ==
    LET new_selector == SelectorNew(upstreams)
    IN IF new_selector = None
       THEN [heap |-> heap, ptr |-> None]
       ELSE [heap |-> Append(heap, Unwrap(new_selector)), ptr |-> Some(Len(heap) + 1)]

IdleReload ==
    [pc         |-> "idle",
     new_config |-> None,     \* the Config parsed by this reload
     read       |-> None,     \* the file content the latest reload read
     old        |-> None,     \* inner and upstream_selector when it started
     heap_len   |-> 0]        \* selectors constructed before it started

\* --- gateway/handler/mod.rs ---

\* what an upstream answers: a status and the kind of body ("sse": the
\* content-type holds text/event-stream; "json": a body that is collected;
\* "unreadable": collecting the body fails)
AnswerSamples ==
    { <<200, "sse">>, <<200, "json">>, <<429, "json">>, <<500, "sse">>,
      <<200, "unreadable">> }

StatusOnly(code) ==
    [status       |-> code,
     content_type |-> None,
     optimization |-> None,
     text         |-> "",
     local        |-> None,
     relayed      |-> "none"]

\* req_local_intercept: the response written for a local_response
LocalInterceptResponse_noHeader(local_response) ==
    [StatusOnly(200) EXCEPT !.content_type = Some("application/json"),
                            !.local = Some(local_response.body)]
LocalInterceptResponse(local_response) ==
    [StatusOnly(200) EXCEPT !.content_type = Some("application/json"),
                            !.optimization = Some(local_response.reason),
                            !.local = Some(local_response.body)]

\* the Err arm of client.request
BadGatewayResponse_500 == [StatusOnly(500) EXCEPT !.text = "Bad Gateway"]
BadGatewayResponse ==
    [StatusOnly(502) EXCEPT !.content_type = Some("text/plain; charset=utf-8"),
                            !.text = "Bad Gateway"]

\* the Ok arm of client.request: the upstream's status is passed on; an SSE
\* body is streamed, any other body is collected (and translated back for an
\* oai_api upstream)
RelayResponse(status_code, kind, oai_api) ==
    IF kind = "sse"
    THEN [StatusOnly(status_code) EXCEPT !.content_type = Some("text/event-stream"),
                                         !.relayed = "stream"]
    ELSE IF kind = "unreadable"
    THEN StatusOnly(500)
    ELSE [StatusOnly(status_code) EXCEPT
             !.content_type = Some("application/json"),
             !.relayed = IF oai_api THEN "translated" ELSE "body"]

\* a header value must not hold control characters
ValidHeaderValue(api_key) == api_key # "c\n1"

\* on a translation error, fall back to the body as it was before the model
\* override
RewriteBody_dropOverride(body_bytes, selected_model, oai_api) ==
    LET overridden ==
            IF selected_model # "" /\ body_bytes.kind # "empty"
            THEN LET o == OverrideModelInBody(body_bytes, selected_model)
                 IN IF o = None THEN body_bytes ELSE Unwrap(o)
            ELSE body_bytes
    IN IF oai_api /\ overridden.kind # "empty"
       THEN LET converted == AnthropicRequestToResponses(overridden)
            IN IF converted = None THEN body_bytes ELSE Unwrap(converted)
       ELSE IF overridden.kind = "empty" THEN overridden
       ELSE LET patched == PatchReasoningForThinkingMode(overridden)
            IN IF patched = None THEN overridden ELSE Unwrap(patched)

\* the body after model override, translation or thinking patch
RewriteBody(body_bytes, selected_model, oai_api) ==
    LET overridden ==
            IF selected_model # "" /\ body_bytes.kind # "empty"
            THEN LET o == OverrideModelInBody(body_bytes, selected_model)
                 IN IF o = None THEN body_bytes ELSE Unwrap(o)
            ELSE body_bytes
    IN IF oai_api /\ overridden.kind # "empty"
       THEN LET converted == AnthropicRequestToResponses(overridden)
            IN IF converted = None THEN overridden ELSE Unwrap(converted)
       ELSE IF overridden.kind = "empty" THEN overridden
       ELSE LET patched == PatchReasoningForThinkingMode(overridden)
            IN IF patched = None THEN overridden ELSE Unwrap(patched)

\* the calls filter_req_body makes on the collected body, in order; a filter
\* never returns an empty body
FilterReqBodyCalls(collected) ==
    IF collected.kind = "empty" THEN <<>>
    ELSE <<"filter_system_prompts", "filter_messages_content",
           "filter_tools_by_description">>

\* token accounting ahead of the translation
PrepareBodyCalls_tokensFirst(body_bytes, selected_model, oai_api) ==
    (IF body_bytes.kind # "empty" THEN <<"calculate_tokens">> ELSE <<>>)
    \o (IF selected_model # "" /\ body_bytes.kind # "empty"
        THEN <<"override_model_in_body">> ELSE <<>>)
    \o (IF body_bytes.kind = "empty" THEN <<>>
        ELSE IF oai_api THEN <<"anthropic_request_to_responses">>
        ELSE <<"patch_reasoning_for_thinking_mode">>)
\* the calls the handler makes between the selection and the proxy request,
\* in order; a panic in override_model_in_body ends them
PrepareBodyCalls(body_bytes, selected_model, oai_api) ==
    IF selected_model # "" /\ body_bytes.kind # "empty" /\ OverrideModelPanics(body_bytes)
    THEN <<"override_model_in_body">>
    ELSE (IF selected_model # "" /\ body_bytes.kind # "empty"
          THEN <<"override_model_in_body">> ELSE <<>>)
         \o (IF body_bytes.kind = "empty" THEN <<>>
             ELSE IF oai_api THEN <<"anthropic_request_to_responses">>
             ELSE <<"patch_reasoning_for_thinking_mode">>)
         \o (IF RewriteBody(body_bytes, selected_model, oai_api).kind # "empty"
             THEN <<"calculate_tokens">> ELSE <<>>)

\* the host part of each endpoint of EndpointNames: the text between the
\* scheme and the first '/'
EndpointHosts == <<"a.example", "b.example", "c.example", "d.example">>
HostOf(endpoint) ==
    EndpointHosts[CHOOSE i \in 1..Len(EndpointNames) : EndpointNames[i] = endpoint]

\* the headers of the n-th request a client sends; names are lower case as
\* the http crate stores them
ClientHeaders(n) ==
    IF n % 2 = 1
    THEN << <<"host", <<"proxy.local">> >>, <<"authorization", <<"Bearer ", "client-token">> >>,
            <<"content-type", <<"application/json">> >>, <<"content-length", <<"42">> >>,
            <<"x-api-key", <<"client-key">> >> >>
    ELSE << <<"accept", <<"application/json">> >>, <<"host", <<"a.example">> >>,
            <<"accept", <<"text/event-stream">> >>, <<"anthropic-version", <<"2023-06-01">> >> >>

\* the client's authorization header is copied as well
ProxyHeaders_keepAuth(headers, api_key, host) ==
    SelectSeq(headers, LAMBDA h : h[1] \notin {"host", "content-length"})
       \o << <<"authorization", <<"Bearer ", api_key>> >>, <<"host", <<host>> >> >>

\* the headers of the proxy request: the client's without host, authorization
\* and content-length, then the injected Authorization and host
ProxyHeaders(headers, api_key, host) ==
    SelectSeq(headers, LAMBDA h : h[1] \notin {"host", "authorization", "content-length"})
       \o << <<"authorization", <<"Bearer ", api_key>> >>, <<"host", <<host>> >> >>

IdleReq ==
    [pc        |-> "idle",
     id        |-> 0,            \* ordinal of the arrival
     url       |-> <<>>,
     headers   |-> <<>>,         \* req.headers() as (name, value) pairs
     received  |-> EmptyBytes,   \* the bytes the client sent
     filtered  |-> EmptyBytes,   \* body_bytes after filter_req_body
     flags     |-> None,         \* config.get().optimizations as read
     local     |-> None,         \* what try_local_optimization returned
     selector  |-> None,         \* what get_upstream_selector returned
     selection |-> None,         \* what selector.next() returned
     answer    |-> None,         \* what client.request returned
     response  |-> None,         \* what the client receives
     steps     |-> <<>>,         \* the calls the handler made, in order
     counted   |-> None,         \* the body calculate_tokens was given
     outcome   |-> ""]

QuotaBody ==
    ObjectBytes([EmptyObject EXCEPT
        !.model = Some("claude-test"),
        !.max_tokens = Some(1),
        !.messages = Some(<<Message("user", StrContent(<<"Count">>))>>)])

ChatBody ==
    ObjectBytes([EmptyObject EXCEPT
        !.model = Some("claude-test"),
        !.max_tokens = Some(2),
        !.system = ArrContent(<<TextBlock(<<"You are Claude Code", " ", "today">>),
                                TextBlock(<<"project", " ", "notes">>)>>),
        !.messages = Some(<<Message("user",
                              ArrContent(<<TextBlock(<<"<system-reminder>", "x",
                                                       "</system-reminder>", "\n">>),
                                           TextBlock(<<"normal", " ", "chat">>)>>))>>),
        !.tools = Some(<<Tool(Some(<<"Allows Claude to search the web">>)),
                         Tool(Some(<<"Reads a file">>))>>)])

\* a request object without messages
NoMessagesBody == ObjectBytes([EmptyObject EXCEPT !.model = Some("claude-test")])

\* the (url, body) pairs clients send
RequestSamples ==
    { <<url, body>> : url \in { <<"/claude/v1/messages">> },
                      body \in {EmptyBytes, NonObjectBytes, QuotaBody, ChatBody,
                                NoMessagesBody} }
    \cup { << <<"/claude/v1/messages/", "count_tokens", "?foo=bar">>, InvalidBytes >> }

Init ==
    /\ \E c \in ConfigSamples :
          /\ file = Toml(c)
          /\ inner = c
          /\ selectors = Construct(<<>>, c.upstream).heap
          /\ upstream_selector = Construct(<<>>, c.upstream).ptr
    /\ events = 0
    /\ reload = IdleReload
    /\ req = [r \in Requests |-> IdleReq]
    /\ upstream_log = <<>>
    /\ stats = [request_count |-> 0]
    /\ budget = [arrivals |-> MaxArrivals, writes |-> MaxWrites]
    /\ NoCallers /\ NoOpt /\ NoSse /\ NoCall

\* a write to the config file, closed: the watcher receives one event
WriteFile(content) ==
    /\ budget.writes > 0
    /\ file' = content
    /\ events' = events + 1
    /\ budget' = [budget EXCEPT !.writes = @ - 1]
    /\ UNCHANGED <<auxVars, selectors, selectorVars, optVars, inner, upstream_selector, reload,
                   req, upstream_log, stats>>

\* the watcher callback takes an event; reload() reads the file
ReloadLoad ==
    /\ reload.pc = "idle"
    /\ events > 0
    /\ events' = events - 1
    /\ LET loaded == LoadFromFile(file)
       IN reload' = [pc         |-> IF loaded = None THEN "idle" ELSE "store_inner",
                     new_config |-> loaded,
                     read       |-> Some(file),
                     old        |-> Some([inner |-> inner,
                                          upstream_selector |-> upstream_selector]),
                     heap_len   |-> Len(selectors)]
    /\ UNCHANGED <<auxVars, selectors, selectorVars, optVars, inner, upstream_selector, file,
                   pipelineVars>>

\* reload(): old = inner.load(); compare; inner.store(new_config)
ReloadStoreInner ==
    /\ reload.pc = "store_inner"
    /\ LET new_config == Unwrap(reload.new_config)
       IN /\ inner' = new_config
          /\ reload' = [reload EXCEPT !.pc = IF UpstreamChanged(inner, new_config)
                                             THEN "store_selector"
                                             ELSE "idle"]
    /\ UNCHANGED <<auxVars, selectors, selectorVars, optVars, upstream_selector, file, events,
                   pipelineVars>>

\* reload(): upstream_selector.store(UpstreamSelector::new(new_config.upstream))
ReloadStoreSelector ==
    /\ reload.pc = "store_selector"
    /\ LET built == Construct(selectors, Unwrap(reload.new_config).upstream)
       IN /\ selectors' = built.heap
          /\ upstream_selector' = built.ptr
    /\ reload' = [reload EXCEPT !.pc = "idle"]
    /\ UNCHANGED <<auxVars, selectorVars, optVars, inner, file, events, pipelineVars>>

\* a client request reaches claude_proxy; the task slots are interchangeable,
\* so a request takes the second one only while the first is occupied
Arrive(r, url, body) ==
    /\ req[r].pc \in {"idle", "done"}
    /\ r = "r1" \/ req["r1"].pc \notin {"idle", "done"}
    /\ budget.arrivals > 0
    /\ budget' = [budget EXCEPT !.arrivals = @ - 1]
    /\ req' = [req EXCEPT ![r] = [IdleReq EXCEPT !.pc = "filter",
                                                 !.id = MaxArrivals - budget.arrivals + 1,
                                                 !.url = url,
                                                 !.headers = ClientHeaders(
                                                     MaxArrivals - budget.arrivals + 1),
                                                 !.received = body]]
    /\ UNCHANGED <<auxVars, selectors, selectorVars, optVars, storeVars, upstream_log, stats>>

\* filter_req_body: the body is collected and the three filters are applied
FilterReqBodyStep(r) ==
    /\ req[r].pc = "filter"
    /\ req' = [req EXCEPT ![r].pc = "intercept",
                          ![r].filtered = FilterReqBody(req[r].received),
                          ![r].steps = @ \o FilterReqBodyCalls(req[r].received)]
    /\ UNCHANGED <<auxVars, selectors, selectorVars, optVars, storeVars, upstream_log, stats,
                   budget>>

\* filter_req_body: collecting the request body fails
CollectError(r) ==
    /\ req[r].pc = "filter"
    /\ req' = [req EXCEPT ![r].pc = "done",
                          ![r].response = Some(StatusOnly(500)),
                          ![r].outcome = "Failed to collect request body"]
    /\ UNCHANGED <<auxVars, selectors, selectorVars, optVars, storeVars, upstream_log, stats,
                   budget>>

\* req_local_intercept
ReqLocalIntercept(r) ==
    /\ req[r].pc = "intercept"
    /\ LET flags == inner.optimizations
           local_response == TryLocalOptimization(req[r].filtered, req[r].url, flags)
       IN req' = [req EXCEPT
             ![r].flags = Some(flags),
             ![r].local = local_response,
             ![r].steps = Append(@, "try_local_optimization"),
             ![r].pc = IF local_response = None THEN "select" ELSE "done",
             ![r].response = IF local_response = None THEN None
                             ELSE Some(LocalInterceptResponse(Unwrap(local_response))),
             ![r].outcome = IF local_response = None THEN "" ELSE "local"]
    /\ UNCHANGED <<auxVars, selectors, selectorVars, optVars, storeVars, upstream_log, stats,
                   budget>>

\* config.get_upstream_selector()
GetUpstreamSelector(r) ==
    /\ req[r].pc = "select"
    /\ IF upstream_selector = None
       THEN req' = [req EXCEPT ![r].pc = "done",
                               ![r].steps = Append(@, "get_upstream_selector"),
                               ![r].response = Some(StatusOnly(500)),
                               ![r].outcome = "UpstreamSelector not initialized"]
       ELSE req' = [req EXCEPT ![r].pc = "next",
                               ![r].steps = Append(@, "get_upstream_selector"),
                               ![r].selector = upstream_selector]
    /\ UNCHANGED <<auxVars, selectors, selectorVars, optVars, storeVars, upstream_log, stats,
                   budget>>

\* selector.next()
SelectorNextStep(r) ==
    /\ req[r].pc = "next"
    /\ LET id == Unwrap(req[r].selector)
           result == SelectorNext(selectors[id])
       IN /\ selectors' = [selectors EXCEPT ![id].next_index = result.next_index]
          /\ IF result.ret = None
             THEN req' = [req EXCEPT ![r].pc = "done",
                                     ![r].steps = Append(@, "selector.next"),
                                     ![r].response = Some(StatusOnly(500)),
                                     ![r].outcome = "No upstream configured"]
             ELSE req' = [req EXCEPT ![r].pc = "forward",
                                     ![r].steps = Append(@, "selector.next"),
                                     ![r].selection = result.ret]
    /\ UNCHANGED <<auxVars, selectorVars, optVars, storeVars, upstream_log, stats, budget>>

\* model override, translation or thinking patch, token accounting, building
\* the proxy request and handing it to the client
Forward(r) ==
    /\ req[r].pc = "forward"
    /\ LET sel == Unwrap(req[r].selection)
           body_bytes == req[r].filtered
           panics == /\ sel.model # ""
                     /\ body_bytes.kind # "empty"
                     /\ OverrideModelPanics(body_bytes)
           final == RewriteBody(body_bytes, sel.model, sel.oai_api)
           prepared == req[r].steps \o PrepareBodyCalls(body_bytes, sel.model, sel.oai_api)
           counted == IF final.kind # "empty" THEN Some(final) ELSE None
       IN IF panics
          THEN /\ req' = [req EXCEPT ![r].pc = "done",
                                     ![r].steps = prepared,
                                     ![r].outcome = "panic"]
               /\ UNCHANGED <<stats, upstream_log>>
          ELSE /\ stats' = IF final.kind # "empty"
                           THEN [stats EXCEPT !.request_count = @ + 1]
                           ELSE stats
               /\ IF ValidHeaderValue(sel.api_key)
                  THEN /\ upstream_log' = Append(upstream_log,
                                             [id            |-> req[r].id,
                                              selector      |-> Unwrap(req[r].selector),
                                              endpoint      |-> sel.endpoint,
                                              authorization |-> <<"Bearer ", sel.api_key>>,
                                              headers       |-> ProxyHeaders(req[r].headers,
                                                                   sel.api_key,
                                                                   HostOf(sel.endpoint)),
                                              oai_api       |-> sel.oai_api,
                                              url           |-> req[r].url,
                                              body          |-> final])
                       /\ req' = [req EXCEPT ![r].pc = "await",
                                             ![r].counted = counted,
                                             ![r].steps = Append(prepared, "client.request")]
                  ELSE /\ req' = [req EXCEPT
                                     ![r].pc = "done",
                                     ![r].counted = counted,
                                     ![r].steps = prepared,
                                     ![r].response = Some(StatusOnly(500)),
                                     ![r].outcome = "Failed to build proxy request"]
                       /\ UNCHANGED upstream_log
    /\ UNCHANGED <<auxVars, selectors, selectorVars, optVars, storeVars, budget>>

\* client.request fails: connection refused, reset, timeout, DNS
UpstreamError(r) ==
    /\ req[r].pc = "await"
    /\ req' = [req EXCEPT ![r].pc = "done",
                          ![r].answer = Some([ok |-> FALSE, status |-> 0, kind |-> "error"]),
                          ![r].response = Some(BadGatewayResponse),
                          ![r].outcome = "Proxy request failed"]
    /\ UNCHANGED <<auxVars, selectors, selectorVars, optVars, storeVars, upstream_log, stats,
                   budget>>

\* client.request returns the upstream's response
UpstreamAnswer(r, status_code, kind) ==
    /\ req[r].pc = "await"
    /\ req' = [req EXCEPT
          ![r].pc = "done",
          ![r].answer = Some([ok |-> TRUE, status |-> status_code, kind |-> kind]),
          ![r].response = Some(RelayResponse(status_code, kind,
                                             Unwrap(req[r].selection).oai_api)),
          ![r].outcome = IF kind = "unreadable"
                         THEN "Failed to collect response body"
                         ELSE "relayed"]
    /\ UNCHANGED <<auxVars, selectors, selectorVars, optVars, storeVars, upstream_log, stats,
                   budget>>

Next ==
    \/ \E content \in FileSamples : WriteFile(content)
    \/ ReloadLoad
    \/ ReloadStoreInner
    \/ ReloadStoreSelector
    \/ \E r \in Requests, sample \in RequestSamples : Arrive(r, sample[1], sample[2])
    \/ \E r \in Requests : FilterReqBodyStep(r)
    \/ \E r \in Requests : CollectError(r)
    \/ \E r \in Requests : ReqLocalIntercept(r)
    \/ \E r \in Requests : GetUpstreamSelector(r)
    \/ \E r \in Requests : SelectorNextStep(r)
    \/ \E r \in Requests : Forward(r)
    \/ \E r \in Requests : UpstreamError(r)
    \/ \E r \in Requests, answer \in AnswerSamples :
          UpstreamAnswer(r, answer[1], answer[2])

Spec == Init /\ [][Next]_vars

-----------------------------------------------------------------------------
(* Claims about the pipeline and the config store, checked under Spec *)

\* the request with this arrival ordinal was sent to an upstream
Sent(id) == \E i \in 1..Len(upstream_log) : upstream_log[i].id = id

\* request r has left req_local_intercept
Intercepted(r) == req[r].flags # None

\* C5: whenever try_local_optimization returns a response for the filtered
\* body, the client receives status 200 with content-type application/json,
\* the header x-cc-proxy-optimization equal to the reason tag and the
\* synthesised body, and nothing is sent upstream for that request.
C5_LocalAnswer ==
    \A r \in Requests :
       Intercepted(r) =>
          LET ret == TryLocalOptimization(req[r].filtered, req[r].url,
                                          Unwrap(req[r].flags))
          IN ret # None =>
                /\ req[r].pc = "done"
                /\ req[r].response # None
                /\ Unwrap(req[r].response).status = 200
                /\ Unwrap(req[r].response).content_type = Some("application/json")
                /\ Unwrap(req[r].response).optimization = Some(Unwrap(ret).reason)
                /\ Unwrap(req[r].response).local = Some(Unwrap(ret).body)
                /\ ~Sent(req[r].id)

\* a request answered locally after another request was forwarded upstream
C5_Witness ==
    \E r \in Requests :
       /\ req[r].pc = "done"
       /\ req[r].local # None
       /\ Unwrap(req[r].response).optimization = Some("quota_probe_mock")
       /\ upstream_log # <<>>

\* request r got an answer from client.request
Answered(r) == req[r].answer # None
NetworkError(r) == Answered(r) /\ ~Unwrap(req[r].answer).ok
UpstreamStatus(r) == Unwrap(req[r].answer).status
IsBadGateway(r) ==
    /\ req[r].response # None
    /\ Unwrap(req[r].response).status = 502
    /\ Unwrap(req[r].response).text = "Bad Gateway"

\* C7 as stated: a network error or a non-2xx upstream status is answered
\* with HTTP 502 "Bad Gateway".
C7_Original ==
    \A r \in Requests :
       (NetworkError(r) \/ (Answered(r) /\ UpstreamStatus(r) \notin 200..299))
          => IsBadGateway(r)

\* C7: a network error is answered with HTTP 502 and body "Bad Gateway"; an
\* upstream answer, whatever its status, is relayed with the upstream's
\* status, or answered with 500 when its non-SSE body cannot be collected.
C7_NetworkErrorOnly ==
    \A r \in Requests :
       Answered(r) =>
          /\ NetworkError(r) => IsBadGateway(r)
          /\ ~NetworkError(r) =>
                /\ ~IsBadGateway(r)
                /\ Unwrap(req[r].response).status =
                      IF Unwrap(req[r].answer).kind = "unreadable"
                      THEN 500
                      ELSE UpstreamStatus(r)

\* one request failed on the network, another got a 429 from its upstream
C7_Witness ==
    \E r, q \in Requests :
       /\ NetworkError(r) /\ IsBadGateway(r)
       /\ Answered(q) /\ ~NetworkError(q) /\ UpstreamStatus(q) = 429
       /\ Unwrap(req[q].response).status = 429

\* request r was declined by the optimizer and has left the selection steps
PastSelection(r) ==
    /\ Intercepted(r)
    /\ req[r].local = None
    /\ req[r].pc \notin {"select", "next"}

\* C8: UpstreamSelector::new returns no selector for an empty upstream list
\* and next() returns None iff the list is empty; a request not answered by
\* the LocalOptimizer while no selector or no selection is available is
\* answered with HTTP 500 and nothing is sent upstream.
C8_NoSelector ==
    /\ SelectorNew(<<>>) = None
    /\ \A c \in ConfigSamples : c.upstream # <<>> => SelectorNew(c.upstream) # None
    /\ \A id \in 1..Len(selectors) :
          (SelectorNext(selectors[id]).ret = None) <=> (selectors[id].upstreams = <<>>)
    /\ \A r \in Requests :
          (PastSelection(r) /\ (req[r].selector = None \/ req[r].selection = None))
             => /\ req[r].pc = "done"
                /\ req[r].response # None
                /\ Unwrap(req[r].response).status = 500
                /\ ~Sent(req[r].id)

\* a declined request found no selector published and was answered with 500
C8_Witness ==
    \E r \in Requests :
       /\ PastSelection(r)
       /\ req[r].selector = None
       /\ upstream_selector = None
       /\ inner.upstream = <<>>
       /\ Unwrap(req[r].response).status = 500

\* the latest reload could not read or parse the file
ReloadFailed == reload.read # None /\ Unwrap(reload.read).kind # "toml"

\* C9: if reload() cannot read or parse the config file, the published Config,
\* the published UpstreamSelector and that selector's cursor are what they
\* were before the reload, and later requests are served from them.
C9_FailedReloadKeeps ==
    /\ [](ReloadFailed =>
             /\ reload.pc = "idle"
             /\ inner = Unwrap(reload.old).inner
             /\ upstream_selector = Unwrap(reload.old).upstream_selector)
    /\ [][(reload' # reload /\ Unwrap(reload'.read).kind # "toml")
             => selectors' = selectors]_vars
    /\ [][(ReloadFailed /\ reload' = reload) =>
             \A r \in Requests :
                /\ (req[r].pc = "intercept" /\ req'[r].pc # "intercept")
                      => req'[r].flags = Some(Unwrap(reload.old).inner.optimizations)
                /\ (req[r].pc = "select" /\ req'[r].pc = "next")
                      => req'[r].selector = Unwrap(reload.old).upstream_selector]_vars

\* a failed reload is over, the selector it left in place has served a
\* request and another request is in flight
C9_Witness ==
    /\ ReloadFailed
    /\ reload.pc = "idle"
    /\ events = 0
    /\ upstream_selector # None
    /\ upstream_selector = Unwrap(reload.old).upstream_selector
    /\ selectors[Unwrap(upstream_selector)].next_index = 2
    /\ \E r \in Requests : req[r].pc = "await"

\* the latest reload parsed the file and has finished
ReloadSucceeded ==
    /\ reload.pc = "idle"
    /\ reload.read # None
    /\ Unwrap(reload.read).kind = "toml"

\* C10: after a successful reload(), get() returns the Config parsed from the
\* file; a new selector built from the new list (cursor 0, or no selector for
\* an empty list) is published iff the new upstream list differs from the
\* previously published one; the upstream list of a constructed selector is
\* never mutated.
C10_SuccessfulReload ==
    /\ [](ReloadSucceeded =>
             LET parsed == Unwrap(reload.read).config
                 old == Unwrap(reload.old)
             IN /\ inner = parsed
                /\ IF old.inner.upstream # parsed.upstream
                   THEN IF parsed.upstream = <<>>
                        THEN upstream_selector = None
                        ELSE /\ upstream_selector # None
                             /\ Unwrap(upstream_selector) > reload.heap_len
                             /\ selectors[Unwrap(upstream_selector)].upstreams
                                   = parsed.upstream
                   ELSE upstream_selector = old.upstream_selector)
    /\ [][upstream_selector' # upstream_selector =>
             \/ /\ upstream_selector' = None
                /\ Unwrap(reload.new_config).upstream = <<>>
             \/ /\ upstream_selector' = Some(Len(selectors) + 1)
                /\ selectors'[Len(selectors) + 1] =
                      [upstreams  |-> Unwrap(reload.new_config).upstream,
                       next_index |-> 0]]_vars
    /\ [][/\ Len(selectors') >= Len(selectors)
          /\ \A id \in 1..Len(selectors) :
                selectors'[id].upstreams = selectors[id].upstreams]_vars

\* a successful reload replaced a selector whose cursor had advanced by a new
\* one for a different, non-empty list
C10_Witness ==
    /\ ReloadSucceeded
    /\ Unwrap(reload.old).upstream_selector # None
    /\ selectors[Unwrap(Unwrap(reload.old).upstream_selector)].next_index > 0
    /\ Unwrap(reload.old).inner.upstream # inner.upstream
    /\ upstream_selector # None
    /\ upstream_selector # Unwrap(reload.old).upstream_selector
    /\ selectors[Unwrap(upstream_selector)].next_index = 0

-----------------------------------------------------------------------------
(* SpecSse: the Ok arm of client.request for one upstream response, frame   *)
(* by frame.  The upstream body yields data frames, trailers and errors;    *)
(* the response is streamed when its content-type names text/event-stream   *)
(* and collected otherwise.                                                 *)

\* how many frames the upstream body yields
MaxFrames == 3

\* a payload: its text, and whether the bytes are gzip-compressed
Payload(text, gz) == [text |-> text, gz |-> gz]

DataFrame(payload) == [kind |-> "data", payload |-> payload]
TrailersFrame == [kind |-> "trailers", payload |-> Payload("", FALSE)]
ErrorFrame == [kind |-> "error", payload |-> Payload("", FALSE)]

FrameSamples ==
    { DataFrame(Payload("event: a", FALSE)), DataFrame(Payload("event: b", TRUE)),
      TrailersFrame, ErrorFrame }

FrameSeqs == UNION { [1..n -> FrameSamples] : n \in 0..MaxFrames }

ContentTypeSamples ==
    { <<"text/event-stream">>, <<"text/event-stream", "; charset=utf-8">>,
      <<"application/json">> }

\* content-type contains "text/event-stream"
IsSse(content_type) == Contains(content_type, "text/event-stream")

\* the filter_map closure of the SSE stream: a data frame gives its bytes,
\* trailers give nothing, an error is logged and gives nothing
SseFilterMap_gunzip(frame) ==
    IF frame.kind = "data" THEN Some([frame.payload EXCEPT !.gz = FALSE]) ELSE None
SseFilterMap(frame) ==
    IF frame.kind = "data" THEN Some(frame.payload) ELSE None

\* the data payloads of a sequence of frames, in order
RECURSIVE DataPayloads(_)
DataPayloads(frames) ==
    IF frames = <<>> THEN <<>>
    ELSE IF Head(frames).kind = "data"
    THEN <<Head(frames).payload>> \o DataPayloads(Tail(frames))
    ELSE DataPayloads(Tail(frames))

\* decompress_gzip_if_needed on the collected payloads
DecompressGzipIfNeeded(payloads, content_encoding) ==
    IF content_encoding # Some("gzip") THEN payloads
    ELSE IF \A i \in 1..Len(payloads) : payloads[i].gz
    THEN [i \in 1..Len(payloads) |-> [payloads[i] EXCEPT !.gz = FALSE]]
    ELSE payloads

InitSse ==
    /\ sse \in { [pc               |-> "headers",
                  oai_api          |-> o,
                  content_type     |-> ct,
                  content_encoding |-> ce,
                  pending          |-> fs,     \* frames the body has yet to yield
                  received         |-> <<>>,   \* frames the body has yielded
                  emitted          |-> <<>>,   \* payloads sent to the client
                  status           |-> 0,
                  translated       |-> FALSE] :
                 o \in BOOLEAN, ct \in ContentTypeSamples,
                 ce \in {None, Some("gzip")}, fs \in FrameSeqs }
    /\ selectors = <<>>
    /\ NoCallers /\ NoOpt /\ NoStore /\ NoPipeline /\ NoCall

\* the response headers arrive: is_sse decides between streaming and collecting
SseBegin(status_code) ==
    /\ sse.pc = "headers"
    /\ sse' = [sse EXCEPT !.pc = IF IsSse(sse.content_type) THEN "stream" ELSE "collect",
                          !.status = status_code]
    /\ UNCHANGED <<selectors, selectorVars, optVars, storeVars, pipelineVars, call>>

\* the stream polls the body and the body yields its next frame
SseFrame ==
    /\ sse.pc = "stream"
    /\ sse.pending # <<>>
    /\ LET frame == Head(sse.pending)
           data == SseFilterMap(frame)
       IN sse' = [sse EXCEPT !.pending = Tail(@),
                             !.received = Append(@, frame),
                             !.emitted = IF data = None THEN @ ELSE Append(@, Unwrap(data))]
    /\ UNCHANGED <<selectors, selectorVars, optVars, storeVars, pipelineVars, call>>

\* the body yields None: the client stream ends
SseEnd ==
    /\ sse.pc = "stream"
    /\ sse.pending = <<>>
    /\ sse' = [sse EXCEPT !.pc = "done"]
    /\ UNCHANGED <<selectors, selectorVars, optVars, storeVars, pipelineVars, call>>

\* a non-SSE body is collected whole, gunzipped, translated back for an
\* oai_api upstream and sent; an error while collecting gives 500
SseCollect ==
    /\ sse.pc = "collect"
    /\ LET body_error == \E i \in 1..Len(sse.pending) : sse.pending[i].kind = "error"
           body_bytes == DecompressGzipIfNeeded(DataPayloads(sse.pending),
                                                sse.content_encoding)
       IN sse' = [sse EXCEPT
             !.pc = "done",
             !.received = sse.pending,
             !.pending = <<>>,
             !.status = IF body_error THEN 500 ELSE @,
             !.emitted = IF body_error THEN <<>> ELSE body_bytes,
             !.translated = ~body_error /\ sse.oai_api /\ body_bytes # <<>>]
    /\ UNCHANGED <<selectors, selectorVars, optVars, storeVars, pipelineVars, call>>

NextSse ==
    \/ \E status_code \in {200, 429} : SseBegin(status_code)
    \/ SseFrame
    \/ SseEnd
    \/ SseCollect

SpecSse == InitSse /\ [][NextSse]_vars

\* the response is streamed
Streaming == sse.pc # "headers" /\ IsSse(sse.content_type)

\* C11: when the upstream content-type contains text/event-stream, the data
\* frames emitted to the client are the data frames received from the
\* upstream, in order, one for one, payload unmodified, also for an oai_api
\* upstream and a gzip content-encoding (never translated or gunzipped).
C11_SsePassthrough ==
    Streaming =>
       /\ sse.emitted = DataPayloads(sse.received)
       /\ ~sse.translated

\* a finished stream of two data frames, one of them compressed, from an
\* oai_api upstream that declares gzip
C11_Witness ==
    /\ Streaming
    /\ sse.pc = "done"
    /\ sse.oai_api
    /\ sse.content_encoding = Some("gzip")
    /\ Len(sse.emitted) >= 2
    /\ \E i \in 1..Len(sse.emitted) : sse.emitted[i].gz

\* the frames received before the first error
RECURSIVE BeforeError(_)
BeforeError(frames) ==
    IF frames = <<>> \/ Head(frames).kind = "error" THEN <<>>
    ELSE <<Head(frames)>> \o BeforeError(Tail(frames))

-----------------------------------------------------------------------------
(* SpecFilter: one request filter applied to a body, and then applied again *)
(* to its own output                                                        *)

\* how many elements the arrays of the sampled bodies hold
MaxElements == 2

SeqsUpTo(S, n) == UNION { [1..k -> S] : k \in 0..n }

FilterTexts ==
    { <<"<system-reminder>", "x", "</system-reminder>">>,
      <<" ", "<system-reminder>", "x", "</system-reminder>", "\n">>,
      <<"see", "<system-reminder>", "x", "</system-reminder>">>,
      <<"<system-reminder>", "<command-name>", "/x", "</command-name>",
        "</system-reminder>">>,
      <<"<command-name>", "/x", "</command-name>", "<command-args>", "y",
        "</command-args>">>,
      <<"<command-name>", "/x", "</command-name>">>,
      <<"<system-reminder>", "x", "</local-command-stdout>">>,
      <<"<local-command-stdout>", "ok", "</local-command-stdout>">>,
      <<"<local-command-caveat>", "</local-command-caveat>">>,
      <<"<system-reminder>">>,
      <<"normal", " ", "chat">> }

ContentBlockSamples ==
    { TextBlock(t) : t \in FilterTexts } \cup {OtherBlock("image")}

FilterMessageSamples ==
    {None}
    \cup { Some(<<Message("user", ArrContent(bs))>>) :
              bs \in SeqsUpTo(ContentBlockSamples, MaxElements) }
    \cup { Some(<<Message("user", StrContent(<<"<system-reminder>", "x",
                                               "</system-reminder>">>)),
                  Message("assistant",
                          ArrContent(<<TextBlock(<<"<command-name>", "/x",
                                                   "</command-name>">>),
                                       TextBlock(<<"normal", " ", "chat">>)>>)),
                  Message("user", AbsentContent)>>) }

SystemBlockSamples ==
    { TextBlock(<<"You are Claude Code", ",", " ", "an assistant">>),
      TextBlock(<<"x-anthropic-billing-header: cc_version=", "2.1">>),
      TextBlock(<<"project", " ", "notes">>),
      OtherBlock("text") }

FilterSystemSamples ==
    {AbsentContent, StrContent(<<"You are Claude Code">>)}
    \cup { ArrContent(bs) : bs \in SeqsUpTo(SystemBlockSamples, MaxElements) }

ToolElementSamples ==
    { Tool(Some(<<"Allows Claude to search the web", " ", "and more">>)),
      Tool(Some(<<"Reads a file">>)),
      Tool(None) }

FilterToolSamples ==
    {None} \cup { Some(ts) : ts \in SeqsUpTo(ToolElementSamples, MaxElements) }

FilterObjects ==
    { [EmptyObject EXCEPT !.model = Some("claude-test"), !.messages = ms] :
         ms \in FilterMessageSamples }
    \cup { [EmptyObject EXCEPT !.system = sy,
                               !.messages = Some(<<Message("user", StrContent(<<"hi">>))>>)] :
              sy \in FilterSystemSamples }
    \cup { [EmptyObject EXCEPT !.tools = tl] : tl \in FilterToolSamples }

FilterBodies ==
    {EmptyBytes, InvalidBytes, NonObjectBytes} \cup { ObjectBytes(o) : o \in FilterObjects }

FilterNames ==
    {"filter_system_prompts", "filter_messages_content", "filter_tools_by_description"}

ApplyNamedFilter(name, body_bytes) ==
    CASE name = "filter_system_prompts" -> FilterSystemPrompts(body_bytes)
      [] name = "filter_messages_content" -> FilterMessagesContent(body_bytes)
      [] name = "filter_tools_by_description" -> FilterToolsByDescription(body_bytes)

InitFilter ==
    /\ call \in { [fn    |-> name,
                   arg   |-> body,
                   step  |-> 0,
                   ret   |-> None,      \* the filter's result on arg
                   again |-> None] :    \* the filter's result on its own output
                  name \in FilterNames, body \in FilterBodies }
    /\ selectors = <<>>
    /\ NoCallers /\ NoOpt /\ NoStore /\ NoPipeline /\ NoSse

CallFilter ==
    /\ call.step = 0
    /\ call' = [call EXCEPT !.step = 1, !.ret = ApplyNamedFilter(call.fn, call.arg)]
    /\ UNCHANGED <<selectors, selectorVars, optVars, storeVars, pipelineVars, sse>>

CallFilterAgain ==
    /\ call.step = 1
    /\ call.ret # None
    /\ call' = [call EXCEPT !.step = 2,
                            !.again = ApplyNamedFilter(call.fn, Unwrap(call.ret))]
    /\ UNCHANGED <<selectors, selectorVars, optVars, storeVars, pipelineVars, sse>>

NextFilter == CallFilter \/ CallFilterAgain

SpecFilter == InitFilter /\ [][NextFilter]_vars

-----------------------------------------------------------------------------
(* Claims about the request filters, checked under SpecFilter *)

RECURSIVE SumLens(_)
SumLens(messages) ==
    IF messages = <<>> THEN 0
    ELSE Len(Head(messages).content.blocks) + SumLens(Tail(messages))

\* the number of elements in the arrays the named filter works on
ElementCount(name, body_bytes) ==
    CASE name = "filter_system_prompts" -> Len(body_bytes.val.system.blocks)
      [] name = "filter_messages_content" ->
            IF body_bytes.val.messages = None THEN 0
            ELSE SumLens(Unwrap(body_bytes.val.messages))
      [] name = "filter_tools_by_description" ->
            IF body_bytes.val.tools = None THEN 0 ELSE Len(Unwrap(body_bytes.val.tools))

\* C13: each of the three request filters is idempotent: applied to its own
\* output it produces the same output again and removes no element.
C13_Idempotent ==
    call.step = 2 =>
       /\ call.again = call.ret
       /\ ElementCount(call.fn, Unwrap(call.again))
             = ElementCount(call.fn, Unwrap(call.ret))

\* a content-tag filter that removed an element and kept one was applied twice
C13_Witness ==
    /\ call.step = 2
    /\ call.fn = "filter_messages_content"
    /\ ElementCount(call.fn, call.arg) = 2
    /\ ElementCount(call.fn, Unwrap(call.ret)) = 1

-----------------------------------------------------------------------------
(* Claims about the filters inside the pipeline, checked under Spec *)

\* the upstream_log entries of the request with this arrival ordinal
LogOf(id) == { i \in 1..Len(upstream_log) : upstream_log[i].id = id }

\* a body on which no filter finds its target: not JSON, or JSON without an
\* array-valued system, messages or tools
NoFilterTarget(body_bytes) == body_bytes.kind \in {"invalid", "nonobject"}

\* request r has left filter_req_body with a body
Filtered(r) ==
    /\ req[r].pc \notin {"idle", "filter"}
    /\ req[r].outcome # "Failed to collect request body"

\* C14: if the body is not valid JSON or the filters' target fields are
\* absent, every filter leaves the bytes identical, the rest of the pipeline
\* runs on them, and the body is forwarded upstream with its original bytes.
C14_MalformedForwarded ==
    \A r \in Requests :
       (NoFilterTarget(req[r].received) /\ Filtered(r)) =>
          /\ req[r].filtered = req[r].received
          /\ (/\ req[r].pc \in {"await", "done"}
              /\ req[r].selection # None
              /\ ValidHeaderValue(Unwrap(req[r].selection).api_key))
                => /\ LogOf(req[r].id) # {}
                   /\ \A i \in LogOf(req[r].id) :
                         upstream_log[i].body = req[r].received

-----------------------------------------------------------------------------
(* Claims about filter_messages_content, checked under SpecFilter *)

\* filter_messages_content was applied and produced an output
ContentFiltered ==
    /\ call.fn = "filter_messages_content"
    /\ call.step >= 1
    /\ call.ret # None

InMessages == Unwrap(call.arg.val.messages)
OutMessages == Unwrap(Unwrap(call.ret).val.messages)

\* how often an element occurs in a content array
Occurrences(blocks, item) == Cardinality({ j \in 1..Len(blocks) : blocks[j] = item })

\* every occurrence of the j-th element of message i is in the output
Kept(i, j) ==
    LET item == InMessages[i].content.blocks[j]
    IN Occurrences(OutMessages[i].content.blocks, item)
          = Occurrences(InMessages[i].content.blocks, item)

OpeningTags ==
    {"<system-reminder>", "<local-command-stdout>", "<command-name>",
     "<local-command-caveat>"}

StartsWith(text, atom) == text # <<>> /\ text[1] = atom
EndsWith(text, atom) == text # <<>> /\ text[Len(text)] = atom

\* C15 as stated: an element whose text contains a filtered tag but whose
\* trimmed text does not start with that tag is kept.
C15_Original ==
    ContentFiltered =>
       \A i \in 1..Len(InMessages) : \A j \in 1..Len(InMessages[i].content.blocks) :
          LET item == InMessages[i].content.blocks[j]
          IN (/\ item.text # None
              /\ \E tag \in OpeningTags :
                    /\ Contains(Unwrap(item.text), tag)
                    /\ ~StartsWith(Trim(Unwrap(item.text)), tag))
                => Kept(i, j)

\* C15: an element whose text contains a filtered tag but whose trimmed text
\* starts with none of the filtered opening tags is kept, text unmodified.
C15_StartSafety ==
    ContentFiltered =>
       /\ Len(OutMessages) = Len(InMessages)
       /\ \A i \in 1..Len(InMessages) : \A j \in 1..Len(InMessages[i].content.blocks) :
             LET item == InMessages[i].content.blocks[j]
             IN (/\ item.text # None
                 /\ \E tag \in OpeningTags : Contains(Unwrap(item.text), tag)
                 /\ \A tag \in OpeningTags : ~StartsWith(Trim(Unwrap(item.text)), tag))
                   => Kept(i, j)

\* an element with a tag in the middle of its text was kept while its
\* neighbour, wrapped in the tag, was removed
C15_Witness ==
    /\ ContentFiltered
    /\ Len(InMessages) = 1
    /\ InMessages[1].content.blocks =
          <<TextBlock(<<"<system-reminder>", "x", "</system-reminder>">>),
            TextBlock(<<"see", "<system-reminder>", "x", "</system-reminder>">>)>>
    /\ OutMessages[1].content.blocks =
          <<TextBlock(<<"see", "<system-reminder>", "x", "</system-reminder>">>)>>

\* the closing tag paired with each opening tag of the same name
SameTagPairs ==
    {<<"<system-reminder>", "</system-reminder>">>,
     <<"<local-command-stdout>", "</local-command-stdout>">>,
     <<"<command-name>", "</command-name>">>,
     <<"<local-command-caveat>", "</local-command-caveat>">>}

\* the slash-command pair: a command name followed by its arguments
CommandArgsPair == <<"<command-name>", "</command-args>">>

\* the element's trimmed text starts with pair[1] and ends with pair[2]
Wrapped(item, pairs) ==
    /\ item.text # None
    /\ \E pair \in pairs :
          /\ StartsWith(Trim(Unwrap(item.text)), pair[1])
          /\ EndsWith(Trim(Unwrap(item.text)), pair[2])

NotWrappedSame(item) == ~Wrapped(item, SameTagPairs)
NotWrappedAny(item) == ~Wrapped(item, SameTagPairs \cup {CommandArgsPair})

-----------------------------------------------------------------------------
(* SpecTranslate: one call of fix_malformed_function_call_outputs or of     *)
(* anthropic_request_to_responses on a sampled argument                     *)

MaxItems == 2
MaxBlocks == 2

TwoTexts == <<Part(Some("text"), <<"A">>), Part(Some("text"), <<"B">>)>>

OutputSamples ==
    { PlainStr(<<"No files found">>),
      PlainStr(<<"{invalid json}">>),
      ToJsonString(JValue("object", <<>>)),
      ToJsonString(JValue("number", <<>>)),
      ToJsonString(JArray(<<>>)),
      ToJsonString(JArray(<<Part(Some("text"), <<"A">>)>>)),
      ToJsonString(JArray(TwoTexts)),
      ToJsonString(JArray(TwoTexts \o <<Part(None, <<"C">>)>>)),
      ToJsonString(JArray(<<NumberElement("1"), NumberElement("2")>>)),
      ErrorPrefixed(ToJsonString(JArray(TwoTexts))),
      NotAString }

FixItemSamples ==
    { FunctionCallOutputItem("c1", o) : o \in OutputSamples }
    \cup { MessageItem("user", <<Part(Some("input_text"), <<"hi">>)>>),
           FunctionCallItem("c1", "Read", ToJsonString(JValue("object", <<>>))),
           [FunctionCallOutputItem("c1", NotAString) EXCEPT !.output = None],
           [FunctionCallItem("c1", "Read", ToJsonString(JArray(TwoTexts)))
               EXCEPT !.output = Some(ToJsonString(JArray(TwoTexts)))],
           NotAnObjectItem }

FixBodies ==
    { ResponsesRequest("test-model", DEFAULT_MAX_OUTPUT_TOKENS, FALSE, Some(input),
                       None, None) :
         input \in SeqsUpTo(FixItemSamples, MaxItems) }
    \cup { ResponsesRequest("test-model", DEFAULT_MAX_OUTPUT_TOKENS, FALSE, None,
                            None, None),
           [ResponsesRequest("test-model", DEFAULT_MAX_OUTPUT_TOKENS, FALSE, None,
                             None, None) EXCEPT !.k = "other"] }

TranslateBlockSamples ==
    { TextBlock(<<"hi">>),
      ThinkingBlock(<<"hm">>),
      MediaBlock("image", Some("base64"), None, Some("AAAA")),
      ToolUseBlock(Some("c1"), Some("Read"), Some(JValue("object", <<>>))),
      ToolResultBlock(Some("c1"), Some(StringValue(PlainStr(<<"No files found">>))), None),
      ToolResultBlock(Some("c1"), Some(StringValue(PlainStr(<<"boom">>))), Some(TRUE)),
      ToolResultBlock(Some("c1"), Some(StringValue(ToJsonString(JArray(TwoTexts)))), None),
      ToolResultBlock(Some("c1"), Some(OtherValue(JValue("object", <<>>))), None),
      ToolResultBlock(Some("c1"),
                      Some(OtherValue(JArray(<<Part(Some("text"), <<"ok">>)>>))), None),
      ToolResultBlock(Some("c1"),
                      Some(OtherValue(JArray(<<Part(Some("text"), <<"ok">>)>>))),
                      Some(TRUE)),
      ToolResultBlock(None, None, None) }

TranslateMessageSamples ==
    { <<Message(role, ArrContent(bs))>> :
         role \in {"user", "assistant"},
         bs \in SeqsUpTo(TranslateBlockSamples, MaxBlocks) }
    \cup { <<Message("system", StrContent(<<"be brief">>)),
             Message("user", StrContent(<<"hi">>)),
             Message("assistant",
                     ArrContent(<<TextBlock(<<"reading">>),
                                  ToolUseBlock(Some("c1"), Some("Read"), None)>>)),
             Message("user",
                     ArrContent(<<ToolResultBlock(Some("c1"),
                                     Some(StringValue(PlainStr(<<"No files found">>))),
                                     None)>>)),
             Message("user", AbsentContent)>> }

TranslateObjects ==
    { [EmptyObject EXCEPT !.model = Some("claude-test"), !.messages = Some(ms)] :
         ms \in TranslateMessageSamples }
    \cup { [EmptyObject EXCEPT !.model = Some("claude-test"),
                               !.max_tokens = Some(2),
                               !.system = sy,
                               !.tools = Some(<<Tool(Some(<<"Reads a file">>)),
                                                [name |-> Some("Read"),
                                                 description |-> Some(<<"Reads a file">>)]>>),
                               !.messages = Some(<<Message("user", StrContent(<<"hi">>))>>)] :
              sy \in {StrContent(<<" ", "be brief", "\n">>),
                      StrContent(<<" ">>),
                      ArrContent(<<TextBlock(<<"one", " ">>), OtherBlock("text"),
                                   TextBlock(<<"\n">>), TextBlock(<<"two">>)>>)} }
    \cup { EmptyObject,
           [EmptyObject EXCEPT !.model = Some("claude-test")],
           [EmptyObject EXCEPT !.messages = Some(<<>>)] }

TranslateBodies ==
    {EmptyBytes, InvalidBytes, NonObjectBytes}
    \cup { ObjectBytes(o) : o \in TranslateObjects }

InitTranslate ==
    /\ call \in { [fn    |-> "fix_malformed_function_call_outputs",
                   arg   |-> body,
                   step  |-> 0,
                   ret   |-> None,
                   again |-> None] : body \in FixBodies }
           \cup { [fn    |-> "anthropic_request_to_responses",
                   arg   |-> body,
                   step  |-> 0,
                   ret   |-> None,      \* Some(bytes) for Ok, None for Err
                   again |-> None] : body \in TranslateBodies }
    /\ selectors = <<>>
    /\ NoCallers /\ NoOpt /\ NoStore /\ NoPipeline /\ NoSse

CallFix ==
    /\ call.fn = "fix_malformed_function_call_outputs"
    /\ call.step = 0
    /\ call' = [call EXCEPT !.step = 1,
                            !.ret = Some(FixMalformedFunctionCallOutputs(call.arg))]
    /\ UNCHANGED <<selectors, selectorVars, optVars, storeVars, pipelineVars, sse>>

CallTranslate ==
    /\ call.fn = "anthropic_request_to_responses"
    /\ call.step = 0
    /\ call' = [call EXCEPT !.step = 1, !.ret = AnthropicRequestToResponses(call.arg)]
    /\ UNCHANGED <<selectors, selectorVars, optVars, storeVars, pipelineVars, sse>>

NextTranslate == CallFix \/ CallTranslate

SpecTranslate == InitTranslate /\ [][NextTranslate]_vars

-----------------------------------------------------------------------------
(* Claims about the request translator, checked under SpecTranslate *)

\* fix_malformed_function_call_outputs was applied to a body with an input list
Fixed ==
    /\ call.fn = "fix_malformed_function_call_outputs"
    /\ call.step = 1
    /\ call.arg.k = "object"
    /\ call.arg.input # None

InInput == Unwrap(call.arg.input)
OutInput == Unwrap(Unwrap(call.ret).input)

\* the item is a function_call_output whose output is a string that parses
\* as a JSON array
StringifiedArrayOutput(item) ==
    /\ item.k = "object"
    /\ item.type = Some("function_call_output")
    /\ item.output # None
    /\ Unwrap(item.output).enc = "json"
    /\ ~Unwrap(item.output).error
    /\ Unwrap(item.output).json.k = "array"

\* the parsed array without its element at index 1 and with the type of its
\* first element set to output_text (an element that is not an object has no
\* type and stays as it is)
RepairedContent(array) ==
    [j \in 1..(IF Len(array) > 1 THEN Len(array) - 1 ELSE Len(array)) |->
        IF j = 1
        THEN IF array[1].k = "object"
             THEN [array[1] EXCEPT !.type = Some("output_text")]
             ELSE array[1]
        ELSE array[j + 1]]

\* C16: fix_malformed_function_call_outputs rewrites an input item iff it is
\* a function_call_output whose output string parses as a JSON array; that
\* item becomes an assistant message whose content is the parsed array
\* without index 1 and with the first element's type output_text, call_id and
\* output removed; every other item is unchanged, and so are the length and
\* order of the list and the rest of the body.
C16_FixRewrites ==
    Fixed =>
       /\ Len(OutInput) = Len(InInput)
       /\ \A i \in 1..Len(InInput) :
             IF StringifiedArrayOutput(InInput[i])
             THEN /\ OutInput[i].type = Some("message")
                  /\ OutInput[i].role = Some("assistant")
                  /\ OutInput[i].content =
                        Some(RepairedContent(Unwrap(InInput[i].output).json.items))
                  /\ OutInput[i].call_id = None
                  /\ OutInput[i].output = None
                  /\ OutInput[i] # InInput[i]
             ELSE OutInput[i] = InInput[i]
       /\ Unwrap(call.ret) = [call.arg EXCEPT !.input = Some(OutInput)]

\* the list of the repository's test: a stringified array of two texts is
\* rewritten to a message with the first text, the plain output after it
\* is unchanged
C16_Witness ==
    /\ Fixed
    /\ InInput = <<FunctionCallOutputItem("c1", ToJsonString(JArray(TwoTexts))),
                   FunctionCallOutputItem("c1", PlainStr(<<"No files found">>))>>
    /\ OutInput = <<MessageItem("assistant", <<Part(Some("output_text"), <<"A">>)>>),
                    FunctionCallOutputItem("c1", PlainStr(<<"No files found">>))>>

\* anthropic_request_to_responses was applied and returned a body
Translated ==
    /\ call.fn = "anthropic_request_to_responses"
    /\ call.step = 1
    /\ call.ret # None

TranslatedInput == Unwrap(Unwrap(call.ret).val.input)

\* the tool_result blocks of the user and assistant messages, in order
IsToolResult(block) == block.type = "tool_result"
ToolResultsOf(message) ==
    IF message.role \in {"user", "assistant"} /\ message.content.kind = "array"
    THEN SelectSeq(message.content.blocks, IsToolResult)
    ELSE <<>>
ToolResults(messages) ==
    Flatten([i \in 1..Len(messages) |-> ToolResultsOf(messages[i])])

\* the function_call_output items of an input list, in order
IsFunctionCallOutput(item) ==
    item.k = "object" /\ item.type = Some("function_call_output")
FunctionCallOutputs(input) == SelectSeq(input, IsFunctionCallOutput)

\* C17: in the body produced by anthropic_request_to_responses every
\* tool_result block of a user or assistant message appears as an input item
\* {type: function_call_output, call_id: tool_use_id, output: a string}, also
\* when its content is not a string (the output is then the JSON-stringified
\* content).
C17_ToolResultsKept ==
    Translated =>
       LET results == ToolResults(Unwrap(call.arg.val.messages))
           outputs == FunctionCallOutputs(TranslatedInput)
       IN /\ Len(outputs) = Len(results)
          /\ \A i \in 1..Len(results) :
                /\ outputs[i].call_id =
                      Some(IF results[i].tool_use_id = None THEN ""
                           ELSE Unwrap(results[i].tool_use_id))
                /\ outputs[i].output # None
                /\ Unwrap(outputs[i].output).enc # "notstring"
                /\ (results[i].content # None /\ ~Unwrap(results[i].content).isstr
                    /\ results[i].is_error # Some(TRUE))
                      => Unwrap(outputs[i].output).json = Unwrap(results[i].content).v

-----------------------------------------------------------------------------
(* Claims about the order of the pipeline, checked under Spec *)

\* the steps of claude_proxy in the order of the claim; translation and
\* thinking patch exclude each other
PipelineOrder ==
    <<"filter_system_prompts", "filter_messages_content", "filter_tools_by_description",
      "try_local_optimization", "get_upstream_selector", "selector.next",
      "override_model_in_body", "anthropic_request_to_responses",
      "patch_reasoning_for_thinking_mode", "calculate_tokens", "client.request">>

\* the position of each step in that order
RankOf ==
    [step \in { PipelineOrder[i] : i \in 1..Len(PipelineOrder) } |->
        CHOOSE i \in 1..Len(PipelineOrder) : PipelineOrder[i] = step]
Rank(step) == RankOf[step]

Ran(r, step) == \E i \in 1..Len(req[r].steps) : req[r].steps[i] = step
\* the step is the last one the handler made
JustRan(r, step) == req[r].steps # <<>> /\ req[r].steps[Len(req[r].steps)] = step

\* the body after the three filters, applied in the order of the claim
AfterFilters(received) ==
    LET after(body, result) == IF result = None THEN body ELSE Unwrap(result)
        b1 == after(received, FilterSystemPrompts(received))
        b2 == after(b1, FilterMessagesContent(b1))
    IN IF received.kind = "empty" THEN received
       ELSE after(b2, FilterToolsByDescription(b2))

\* C19: per request the steps run in strict sequence: the three filters in
\* order, then the LocalOptimizer on the filtered body, selector.next() only
\* after the optimizer declined, the model override before translation or
\* thinking patch, token accounting on the final body, and the upstream
\* request after all of these.
C19_StrictSequence ==
    \A r \in Requests :
       /\ \A i \in 1..(Len(req[r].steps) - 1) :
             Rank(req[r].steps[i]) < Rank(req[r].steps[i + 1])
       /\ (Ran(r, "try_local_optimization") /\ req[r].received.kind # "empty") =>
                /\ Ran(r, "filter_system_prompts")
                /\ Ran(r, "filter_messages_content")
                /\ Ran(r, "filter_tools_by_description")
       /\ JustRan(r, "try_local_optimization") =>
             /\ req[r].filtered = AfterFilters(req[r].received)
             /\ req[r].local = TryLocalOptimization(req[r].filtered, req[r].url,
                                                    Unwrap(req[r].flags))
       /\ Ran(r, "selector.next") =>
             /\ Ran(r, "try_local_optimization")
             /\ req[r].local = None
       /\ (Ran(r, "anthropic_request_to_responses")
              \/ Ran(r, "patch_reasoning_for_thinking_mode")) =>
             /\ Ran(r, "selector.next")
             /\ Unwrap(req[r].selection).model # "" => Ran(r, "override_model_in_body")
       /\ Ran(r, "client.request") =>
             /\ LogOf(req[r].id) # {}
             /\ \A i \in LogOf(req[r].id) :
                   /\ upstream_log[i].body.kind # "empty" =>
                         /\ Ran(r, "calculate_tokens")
                         /\ req[r].counted = Some(upstream_log[i].body)
                   /\ (Unwrap(req[r].selection).model # ""
                       /\ upstream_log[i].body.kind = "object") =>
                         upstream_log[i].body.val.model =
                            Some(Unwrap(req[r].selection).model)
                   /\ (Unwrap(req[r].selection).model # ""
                       /\ upstream_log[i].body.kind = "responses") =>
                         upstream_log[i].body.val.model = Unwrap(req[r].selection).model
       /\ Ran(r, "calculate_tokens") => req[r].counted # None

\* a request whose body the filters changed went through all the steps of an
\* OpenAI Responses upstream and was sent
C19_Witness ==
    \E r \in Requests :
       /\ req[r].received = ChatBody
       /\ req[r].filtered # req[r].received
       /\ req[r].steps =
             <<"filter_system_prompts", "filter_messages_content",
               "filter_tools_by_description", "try_local_optimization",
               "get_upstream_selector", "selector.next", "override_model_in_body",
               "anthropic_request_to_responses", "calculate_tokens", "client.request">>
       /\ \E i \in LogOf(req[r].id) : upstream_log[i].body.kind = "responses"

\* the body of request r before translation: after the filters and the model
\* override
PreTranslation(r) ==
    LET selected_model == Unwrap(req[r].selection).model
    IN IF selected_model # "" /\ req[r].filtered.kind \in {"object", "nonobject"}
       THEN ToVec("object", [req[r].filtered.val EXCEPT !.model = Some(selected_model)])
       ELSE req[r].filtered

\* the translator's error cases: not a JSON object, model or messages missing
TranslatorErrs(body_bytes) ==
    \/ body_bytes.kind # "object"
    \/ body_bytes.val.model = None
    \/ body_bytes.val.messages = None

\* C20: when the selected upstream is in OpenAIResponses mode and the
\* translator returns an error, the request is still forwarded with exactly
\* the pre-translation body (after filters and model override); the
\* ThinkingPatcher is never run for an OpenAIResponses upstream and the
\* translator is never run for any other upstream.
C20_TranslatorFallback ==
    \A r \in Requests :
       req[r].selection # None =>
          LET sel == Unwrap(req[r].selection)
          IN /\ (/\ sel.oai_api
                 /\ Ran(r, "anthropic_request_to_responses")
                 /\ TranslatorErrs(PreTranslation(r))
                 /\ ValidHeaderValue(sel.api_key))
                   => /\ Ran(r, "client.request")
                      /\ LogOf(req[r].id) # {}
                      /\ \A i \in LogOf(req[r].id) :
                            upstream_log[i].body = PreTranslation(r)
             /\ sel.oai_api => ~Ran(r, "patch_reasoning_for_thinking_mode")
             /\ ~sel.oai_api =>
                   /\ ~Ran(r, "anthropic_request_to_responses")
                   /\ \A i \in LogOf(req[r].id) : upstream_log[i].body.kind # "responses"

\* a request without messages went to the OpenAI Responses upstream: the
\* translator failed and the overridden Anthropic body was sent
C20_Witness ==
    \E r \in Requests :
       /\ req[r].received = NoMessagesBody
       /\ req[r].selection # None
       /\ Unwrap(req[r].selection).oai_api
       /\ Ran(r, "anthropic_request_to_responses")
       /\ Ran(r, "client.request")
       /\ \E i \in LogOf(req[r].id) :
             upstream_log[i].body =
                ToVec("object", [EmptyObject EXCEPT !.model = Some("model-b")])

-----------------------------------------------------------------------------
(* openai_compat/response.rs: Responses response to Anthropic response      *)

\* items of the upstream "output" array; a field is None when it is missing
\* or not of the type the code reads
OutputMessage(role, content) ==
    [k |-> "object", type |-> Some("message"), role |-> role, content |-> content,
     call_id |-> None, id |-> None, name |-> None, arguments |-> None]
OutputFunctionCall(call_id, id, name, arguments) ==
    [k |-> "object", type |-> Some("function_call"), role |-> None, content |-> None,
     call_id |-> call_id, id |-> id, name |-> name, arguments |-> arguments]
OutputOther(k, type) ==
    [k |-> k, type |-> type, role |-> None, content |-> None,
     call_id |-> None, id |-> None, name |-> None, arguments |-> None]
\* a part of a message's content: text is None when it is not a string
OutputPart(k, type, text) == [k |-> k, type |-> type, text |-> text]

\* the upstream response object
ResponseObject(id, model, usage, output, status) ==
    [id |-> id, model |-> model, usage |-> usage, output |-> output, status |-> status]

\* the texts of the parts of one type in the assistant messages, concatenated
\* in output order
PartTexts(content, part_type) ==
    Flatten([i \in 1..Len(content) |->
                IF /\ content[i].k = "object"
                   /\ content[i].type = Some(part_type)
                   /\ content[i].text # None
                THEN Unwrap(content[i].text)
                ELSE <<>>])
ItemTexts(item, part_type) ==
    IF /\ item.k = "object"
       /\ item.type = Some("message")
       /\ item.role = Some("assistant")
       /\ item.content # None
    THEN PartTexts(Unwrap(item.content), part_type)
    ELSE <<>>
CollectTexts(output, part_type) ==
    Flatten([i \in 1..Len(output) |-> ItemTexts(output[i], part_type)])

\* responses_function_call_to_tool_use; the result is None or Some(tool_use)
ResponsesFunctionCallToToolUse(item) ==
    LET call_id == IF item.call_id = None THEN "" ELSE Unwrap(item.call_id)
        item_id == IF item.id = None THEN "" ELSE Unwrap(item.id)
        id == IF call_id = "" THEN item_id ELSE call_id
        name == IF item.name = None THEN "" ELSE Unwrap(item.name)
        arguments == IF item.arguments = None THEN PlainStr(<<>>)
                     ELSE Unwrap(item.arguments)
        parsed == FromStr(arguments)
        input == IF parsed # None /\ Unwrap(parsed).k = "object"
                 THEN [raw |-> FALSE, v |-> Unwrap(parsed)]
                 ELSE [raw |-> TRUE, v |-> arguments]
    IN IF id = "" THEN None
       ELSE Some([type |-> "tool_use", id |-> id, name |-> name, input |-> input])

CollectToolUses(output) ==
    Flatten([i \in 1..Len(output) |->
                IF output[i].k = "object" /\ output[i].type = Some("function_call")
                THEN ResponsesFunctionCallToToolUse(output[i])
                ELSE <<>>])

ThinkingContent(t) == [type |-> "thinking", thinking |-> t]
TextContent(t) == [type |-> "text", text |-> t]

\* a text block for every non-empty text, whitespace or not
AssembleContent_untrimmed(thinking_text, combined_text, tool_uses) ==
    (IF thinking_text # <<>> THEN <<ThinkingContent(thinking_text)>> ELSE <<>>)
    \o (IF combined_text # <<>> \/ tool_uses = <<>>
        THEN <<TextContent(combined_text)>> ELSE <<>>)
    \o tool_uses
\* the content array from the collected texts and tool uses
AssembleContent(thinking_text, combined_text, tool_uses) ==
    (IF Trim(thinking_text) # <<>> THEN <<ThinkingContent(thinking_text)>> ELSE <<>>)
    \o (IF Trim(combined_text) # <<>> \/ tool_uses = <<>>
        THEN <<TextContent(combined_text)>> ELSE <<>>)
    \o tool_uses

\* a status that is read as it is, without a default
StatusOrDefault_none(status) == IF status = None THEN "" ELSE Unwrap(status)
\* object.get("status").and_then(as_str).unwrap_or("completed")
StatusOrDefault(status) == IF status = None THEN "completed" ELSE Unwrap(status)

ChatFinishReasonFromResponseObject(object, has_tool_uses) ==
    LET status == StatusOrDefault(object.status)
    IN CASE status = "incomplete" -> "max_tokens"
         [] status = "completed" -> IF has_tool_uses THEN "tool_use" ELSE "end_turn"
         [] OTHER -> "end_turn"

AnthropicStopReasonFromChatFinishReason(reason) ==
    CASE reason = "tool_use" -> "tool_use"
      [] reason = "max_tokens" -> "max_tokens"
      [] reason = "stop_sequence" -> "stop_sequence"
      [] OTHER -> "end_turn"

\* map_openai_usage_to_anthropic_usage; a count is None when the field is
\* missing
FirstCount(a, b) == IF a # None THEN Unwrap(a) ELSE IF b # None THEN Unwrap(b) ELSE 0
MapOpenaiUsageToAnthropicUsage(usage) ==
    [input_tokens  |-> FirstCount(usage.input_tokens, usage.prompt_tokens),
     output_tokens |-> FirstCount(usage.output_tokens, usage.completion_tokens)]

\* the result is None for Err, Some(bytes) for Ok
ResponsesResponseToAnthropic(body, model_hint) ==
    IF body.kind # "object" THEN None
    ELSE LET object == body.val
             output == IF object.output = None THEN <<>> ELSE Unwrap(object.output)
             combined_text == CollectTexts(output, "output_text")
             thinking_text == CollectTexts(output, "reasoning_text")
             tool_uses == CollectToolUses(output)
             finish_reason ==
                 ChatFinishReasonFromResponseObject(object, tool_uses # <<>>)
         IN Some(ToVec("anthropic",
               [id          |-> IF object.id = None THEN "msg_proxy" ELSE Unwrap(object.id),
                type        |-> "message",
                role        |-> "assistant",
                model       |-> IF object.model # None THEN Unwrap(object.model)
                                ELSE IF model_hint # None THEN Unwrap(model_hint)
                                ELSE "unknown",
                content     |-> AssembleContent(thinking_text, combined_text, tool_uses),
                stop_reason |-> AnthropicStopReasonFromChatFinishReason(finish_reason),
                usage       |-> IF object.usage = None
                                THEN [input_tokens |-> 0, output_tokens |-> 0]
                                ELSE MapOpenaiUsageToAnthropicUsage(Unwrap(object.usage))]))

-----------------------------------------------------------------------------
(* SpecResponse: one call of responses_response_to_anthropic                *)

MaxOutputs == 2

OutputItemSamples ==
    { OutputMessage(Some("assistant"),
                    Some(<<OutputPart("object", Some("output_text"), Some(<<"Hello">>))>>)),
      OutputMessage(Some("assistant"),
                    Some(<<OutputPart("object", Some("reasoning_text"), Some(<<"hm">>)),
                           OutputPart("object", Some("output_text"), Some(<<" ">>)),
                           OutputPart("other", None, None)>>)),
      OutputMessage(Some("assistant"),
                    Some(<<OutputPart("object", Some("reasoning_text"), Some(<<"\n">>)),
                           OutputPart("object", Some("output_text"), None),
                           OutputPart("object", Some("refusal"), Some(<<"no">>))>>)),
      OutputMessage(Some("assistant"), None),
      OutputMessage(Some("user"),
                    Some(<<OutputPart("object", Some("output_text"), Some(<<"ignored">>))>>)),
      OutputFunctionCall(Some("c1"), Some("fc1"), Some("Read"),
                         Some(ToJsonString(JValue("object", <<>>)))),
      OutputFunctionCall(Some(""), Some("fc2"), Some("Grep"), Some(PlainStr(<<"{oops">>))),
      OutputFunctionCall(None, None, Some("Read"),
                         Some(ToJsonString(JArray(<<>>)))),
      OutputOther("object", Some("reasoning")),
      OutputOther("other", None) }

StatusSamples == {None, Some("completed"), Some("incomplete"), Some("failed")}

ResponseBodies ==
    { ObjectBytes(ResponseObject(Some("resp_1"), None, None, Some(output), status)) :
         output \in SeqsUpTo(OutputItemSamples, MaxOutputs), status \in StatusSamples }
    \cup { ObjectBytes(ResponseObject(None, Some("gpt-x"),
                                      Some([input_tokens |-> None, prompt_tokens |-> Some(3),
                                            output_tokens |-> Some(5),
                                            completion_tokens |-> Some(7)]),
                                      None, status)) : status \in StatusSamples }
    \cup {InvalidBytes, NonObjectBytes}

InitResponse ==
    /\ call \in { [fn    |-> "responses_response_to_anthropic",
                   arg   |-> [body |-> body, model_hint |-> hint],
                   step  |-> 0,
                   ret   |-> None,
                   again |-> None] :
                  body \in ResponseBodies, hint \in {None, Some("model-b")} }
    /\ selectors = <<>>
    /\ NoCallers /\ NoOpt /\ NoStore /\ NoPipeline /\ NoSse

CallResponsesResponseToAnthropic ==
    /\ call.fn = "responses_response_to_anthropic"
    /\ call.step = 0
    /\ call' = [call EXCEPT
          !.step = 1,
          !.ret = ResponsesResponseToAnthropic(call.arg.body, call.arg.model_hint)]
    /\ UNCHANGED <<selectors, selectorVars, optVars, storeVars, pipelineVars, sse>>

NextResponse == CallResponsesResponseToAnthropic

SpecResponse == InitResponse /\ [][NextResponse]_vars

-----------------------------------------------------------------------------
(* Claims about the response translator, checked under SpecResponse *)

\* responses_response_to_anthropic was applied and returned a body
ResponseTranslated ==
    /\ call.fn = "responses_response_to_anthropic"
    /\ call.step = 1
    /\ call.ret # None

AnthropicResponse == Unwrap(call.ret).val
ResponseStatus == call.arg.body.val.status

IsToolUse(block) == block.type = "tool_use"
EmittedToolUses == SelectSeq(AnthropicResponse.content, IsToolUse)

\* C21 as stated: stop_reason is max_tokens for status incomplete, tool_use
\* for status completed with a tool_use emitted, end_turn in every other
\* case, a missing status included.
C21_Original ==
    ResponseTranslated =>
       AnthropicResponse.stop_reason =
          IF ResponseStatus = Some("incomplete") THEN "max_tokens"
          ELSE IF ResponseStatus = Some("completed") /\ EmittedToolUses # <<>>
               THEN "tool_use"
          ELSE "end_turn"

\* C21: stop_reason is max_tokens for status incomplete, tool_use for a
\* status that is completed or missing with a tool_use emitted, end_turn in
\* every other case.
C21_StopReason ==
    ResponseTranslated =>
       AnthropicResponse.stop_reason =
          IF ResponseStatus = Some("incomplete") THEN "max_tokens"
          ELSE IF ResponseStatus \in {None, Some("completed")} /\ EmittedToolUses # <<>>
               THEN "tool_use"
          ELSE "end_turn"

\* a response without status that calls a tool stops with tool_use
C21_Witness ==
    /\ ResponseTranslated
    /\ ResponseStatus = None
    /\ Len(EmittedToolUses) = 1
    /\ AnthropicResponse.stop_reason = "tool_use"

UpstreamOutput ==
    IF call.arg.body.val.output = None THEN <<>> ELSE Unwrap(call.arg.body.val.output)

\* the id a function_call item gives its tool_use: call_id, or id when
\* call_id is empty
ToolUseId(item) ==
    IF item.call_id # None /\ Unwrap(item.call_id) # "" THEN Unwrap(item.call_id)
    ELSE IF item.id # None THEN Unwrap(item.id)
    ELSE ""
IsIdentifiedFunctionCall(item) ==
    item.k = "object" /\ item.type = Some("function_call") /\ ToolUseId(item) # ""
ExpectedToolUseIds ==
    LET function_calls == SelectSeq(UpstreamOutput, IsIdentifiedFunctionCall)
    IN [i \in 1..Len(function_calls) |-> ToolUseId(function_calls[i])]

\* the content the claim's rule gives, non-empty meaning nonEmpty(text)
ExpectedContent(nonEmpty(_)) ==
    LET thinking_text == CollectTexts(UpstreamOutput, "reasoning_text")
        combined_text == CollectTexts(UpstreamOutput, "output_text")
    IN (IF nonEmpty(thinking_text) THEN <<ThinkingContent(thinking_text)>> ELSE <<>>)
       \o (IF nonEmpty(combined_text) \/ ExpectedToolUseIds = <<>>
           THEN <<TextContent(combined_text)>> ELSE <<>>)

NonEmpty(text) == text # <<>>
NonBlank(text) == \E i \in 1..Len(text) : text[i] \notin WhitespaceAtoms

ContentAsClaimed(nonEmpty(_)) ==
    LET content == AnthropicResponse.content
        head == ExpectedContent(nonEmpty)
    IN /\ Len(content) = Len(head) + Len(ExpectedToolUseIds)
       /\ SubSeq(content, 1, Len(head)) = head
       /\ \A i \in 1..Len(ExpectedToolUseIds) :
             /\ content[Len(head) + i].type = "tool_use"
             /\ content[Len(head) + i].id = ExpectedToolUseIds[i]
       /\ content # <<>>

\* C22 as stated: a thinking block if the reasoning text is non-empty, a
\* text block if the output text is non-empty or there is no tool_use, then
\* the tool_uses in output order.
C22_Original == ResponseTranslated => ContentAsClaimed(NonEmpty)

\* C22: the content is one thinking block if the concatenated reasoning_text
\* has a non-whitespace character, one text block if the concatenated
\* output_text has a non-whitespace character or there are no tool_uses, then
\* every tool_use in upstream output order; the content is never empty, and a
\* function_call whose call_id and id are both empty gives no tool_use.
C22_ContentOrder == ResponseTranslated => ContentAsClaimed(NonBlank)

\* thinking, text and a tool_use, in this order, from an output that lists
\* the function_call first
C22_Witness ==
    /\ ResponseTranslated
    /\ Len(UpstreamOutput) = 2
    /\ UpstreamOutput[1].type = Some("function_call")
    /\ UpstreamOutput[2].type = Some("message")
    /\ Len(AnthropicResponse.content) = 2
    /\ AnthropicResponse.content[1] = ThinkingContent(<<"hm">>)
    /\ AnthropicResponse.content[2].type = "tool_use"

-----------------------------------------------------------------------------
(* SpecPatch: patch_reasoning_for_thinking_mode on a sampled body, then on  *)
(* its own output                                                           *)

MaxMessages == 3

PatchMessageSamples ==
    { Message("user", StrContent(<<"hi">>)),
      Message("user", ArrContent(<<ThinkingBlock(<<"t0">>)>>)),
      Message("assistant", StrContent(<<"ok">>)),
      Message("assistant", ArrContent(<<TextBlock(<<"ok">>), ThinkingBlock(<<" ", "t1", "\n">>)>>)),
      [Message("assistant", ArrContent(<<ThinkingBlock(<<" ">>), ThinkingBlock(<<"t3">>)>>))
          EXCEPT !.reasoning_content = Some(REASONING_PLACEHOLDER)],
      [Message("assistant", ArrContent(<<ThinkingBlock(<<"t2">>)>>))
          EXCEPT !.reasoning_content = Some(<<"kept">>)],
      [Message("user", StrContent(<<"hi">>))
          EXCEPT !.reasoning_content = Some(REASONING_PLACEHOLDER)] }

PatchBodies ==
    { ObjectBytes([EmptyObject EXCEPT !.model = Some("kimi"),
                                      !.thinking = th,
                                      !.messages = Some(ms)]) :
         th \in {Some("enabled")}, ms \in SeqsUpTo(PatchMessageSamples, MaxMessages) }
    \cup { ObjectBytes([EmptyObject EXCEPT !.thinking = th, !.messages = ms]) :
              th \in {None, Some("disabled"), Some("enabled")},
              ms \in {None, Some(<<Message("assistant", StrContent(<<"ok">>))>>)} }
    \cup {InvalidBytes, NonObjectBytes}

InitPatch ==
    /\ call \in { [fn    |-> "patch_reasoning_for_thinking_mode",
                   arg   |-> body,
                   step  |-> 0,
                   ret   |-> None,      \* None is "unchanged"
                   again |-> None] : body \in PatchBodies }
    /\ selectors = <<>>
    /\ NoCallers /\ NoOpt /\ NoStore /\ NoPipeline /\ NoSse

CallPatch ==
    /\ call.fn = "patch_reasoning_for_thinking_mode"
    /\ call.step = 0
    /\ call' = [call EXCEPT !.step = 1, !.ret = PatchReasoningForThinkingMode(call.arg)]
    /\ UNCHANGED <<selectors, selectorVars, optVars, storeVars, pipelineVars, sse>>

CallPatchAgain ==
    /\ call.fn = "patch_reasoning_for_thinking_mode"
    /\ call.step = 1
    /\ call.ret # None
    /\ call' = [call EXCEPT !.step = 2,
                            !.again = PatchReasoningForThinkingMode(Unwrap(call.ret))]
    /\ UNCHANGED <<selectors, selectorVars, optVars, storeVars, pipelineVars, sse>>

NextPatch == CallPatch \/ CallPatchAgain

SpecPatch == InitPatch /\ [][NextPatch]_vars

\* the patcher was applied to a request with thinking enabled and messages
PatchApplied ==
    /\ call.fn = "patch_reasoning_for_thinking_mode"
    /\ call.step >= 1
    /\ call.arg.kind = "object"
    /\ call.arg.val.thinking = Some("enabled")
    /\ call.arg.val.messages # None

PatchInput == Unwrap(call.arg.val.messages)

\* the trimmed thinking text of a message's first thinking block, <<>> when
\* there is none
OwnThinking(message) ==
    IF message.content.kind # "array" THEN <<>>
    ELSE LET blocks == message.content.blocks
             thinking == { i \in 1..Len(blocks) : blocks[i].type = "thinking" }
         IN IF thinking = {} THEN <<>>
            ELSE LET first == CHOOSE i \in thinking : \A j \in thinking : i <= j
                 IN IF blocks[first].thinking = None THEN <<>>
                    ELSE Trim(Unwrap(blocks[first].thinking))

\* the thinking text of the last message that has one, <<>> when none has
MostRecentThinking(messages) ==
    LET having == { i \in 1..Len(messages) : OwnThinking(messages[i]) # <<>> }
    IN IF having = {} THEN <<>>
       ELSE OwnThinking(messages[CHOOSE i \in having : \A j \in having : j <= i])

ExpectedPatched(messages) ==
    [i \in 1..Len(messages) |->
        IF /\ messages[i].role = "assistant"
           /\ messages[i].reasoning_content \in {None, Some(REASONING_PLACEHOLDER)}
        THEN [messages[i] EXCEPT !.reasoning_content =
                 Some(IF OwnThinking(messages[i]) # <<>> THEN OwnThinking(messages[i])
                      ELSE IF MostRecentThinking(messages) # <<>>
                           THEN MostRecentThinking(messages)
                      ELSE REASONING_PLACEHOLDER)]
        ELSE messages[i]]

-----------------------------------------------------------------------------
(* SpecPrefix: extract_command_prefix on a sampled command line *)

MaxWords == 4

CommandAtoms ==
    {"git", "yarn", "ls", "status", "-m", "FOO=1", "BAR=2", "--env=x", " ", "$(id)"}

InitPrefix ==
    /\ call \in { [fn   |-> "extract_command_prefix",
                   arg  |-> command,
                   step |-> 0,
                   ret  |-> <<>>] : command \in SeqsUpTo(CommandAtoms, MaxWords) }
    /\ selectors = <<>>
    /\ NoCallers /\ NoOpt /\ NoStore /\ NoPipeline /\ NoSse

CallExtractCommandPrefix ==
    /\ call.fn = "extract_command_prefix"
    /\ call.step = 0
    /\ call' = [call EXCEPT !.step = 1, !.ret = ExtractCommandPrefix(call.arg)]
    /\ UNCHANGED <<selectors, selectorVars, optVars, storeVars, pipelineVars, sse>>

SpecPrefix == InitPrefix /\ [][CallExtractCommandPrefix]_vars

PrefixExtracted == call.fn = "extract_command_prefix" /\ call.step = 1

\* the tokens of the command line
CommandTokens == SelectSeq(call.arg, LAMBDA a : a \notin {" ", "\n", "\n\n"})

StartsWithDash(token) == token \in {"-m", "-e", "-n", "--env=x"}
IsKeyValue(token) == token \in {"FOO=1", "BAR=2"}

HasInjection == \E i \in 1..Len(call.arg) : call.arg[i] \in {"BACKTICK-id-BACKTICK", "$(id)"}

\* the number of leading KEY=VALUE tokens
KeyValueCount ==
    LET tokens == CommandTokens
        stops == { i \in 1..Len(tokens) : ~IsKeyValue(tokens[i]) }
    IN IF stops = {} THEN Len(tokens)
       ELSE (CHOOSE i \in stops : \A j \in stops : i <= j) - 1

KeyValueTokens == SubSeq(CommandTokens, 1, KeyValueCount)
HasCommandWord == KeyValueCount < Len(CommandTokens)
CommandWord == CommandTokens[KeyValueCount + 1]
HasFollowing == KeyValueCount + 1 < Len(CommandTokens)
Following == CommandTokens[KeyValueCount + 2]
TwoWord == CommandWord \in {"git", "npm", "docker", "kubectl", "cargo", "go", "pip", "yarn"}

\* C24 as stated: every case other than "<command> <second>" yields the
\* command word prefixed by the recorded KEY=VALUE tokens.
C24_Original ==
    PrefixExtracted =>
       IF HasInjection THEN call.ret = <<"command_injection_detected">>
       ELSE IF CommandTokens = <<>> THEN call.ret = <<"none">>
       ELSE HasCommandWord =>
               IF TwoWord /\ HasFollowing /\ ~StartsWithDash(Following)
               THEN call.ret = <<CommandWord, Following>>
               ELSE call.ret = KeyValueTokens \o <<CommandWord>>

\* C24: as stated, except that a two-word command followed by a token that
\* starts with '-' yields the bare command word without the KEY=VALUE
\* tokens, and a command line of KEY=VALUE tokens only yields "none".
C24_CommandPrefix ==
    PrefixExtracted =>
       IF HasInjection THEN call.ret = <<"command_injection_detected">>
       ELSE IF CommandTokens = <<>> THEN call.ret = <<"none">>
       ELSE IF ~HasCommandWord THEN call.ret = <<"none">>
       ELSE IF TwoWord /\ HasFollowing
            THEN IF ~StartsWithDash(Following)
                 THEN call.ret = <<CommandWord, Following>>
                 ELSE call.ret = <<CommandWord>>
       ELSE call.ret = KeyValueTokens \o <<CommandWord>>

\* FOO=1 git -m: the KEY=VALUE token is recorded and then dropped
C24_Witness ==
    /\ PrefixExtracted
    /\ CommandTokens = <<"FOO=1", "git", "-m">>
    /\ call.ret = <<"git">>

-----------------------------------------------------------------------------
(* Claim about the headers of the forwarded request, checked under Spec *)

HeadersNamed(headers, names) == SelectSeq(headers, LAMBDA h : h[1] \in names)
HeadersNotNamed(headers, names) == SelectSeq(headers, LAMBDA h : h[1] \notin names)

ReplacedHeaders == {"host", "authorization", "content-length"}

\* C25: every forwarded request carries Authorization "Bearer <api_key>" with
\* the api_key of the selector.next() call that chose its endpoint and the
\* Host of that endpoint; the client's host, authorization and content-length
\* are not forwarded and every other client header is forwarded unchanged.
C25_ForwardedHeaders ==
    \A r \in Requests : \A i \in LogOf(req[r].id) :
       LET sent == upstream_log[i]
           selection == Unwrap(req[r].selection)
       IN /\ sent.endpoint = selection.endpoint
          /\ HeadersNamed(sent.headers, {"authorization"}) =
                << <<"authorization", <<"Bearer ", selection.api_key>> >> >>
          /\ HeadersNamed(sent.headers, {"host"}) =
                << <<"host", <<HostOf(selection.endpoint)>> >> >>
          /\ HeadersNamed(sent.headers, {"content-length"}) = <<>>
          /\ HeadersNotNamed(sent.headers, ReplacedHeaders) =
                HeadersNotNamed(req[r].headers, ReplacedHeaders)

\* a client that sent its own host, authorization and content-length was
\* forwarded with the selected key and host and its x-api-key
C25_Witness ==
    \E r \in Requests : \E i \in LogOf(req[r].id) :
       /\ HeadersNamed(req[r].headers, {"authorization"}) =
             << <<"authorization", <<"Bearer ", "client-token">> >> >>
       /\ HeadersNamed(req[r].headers, {"content-length"}) # <<>>
       /\ Unwrap(req[r].selection).api_key = "b1"
       /\ HeadersNamed(upstream_log[i].headers, {"authorization", "host"}) =
             << <<"authorization", <<"Bearer ", "b1">> >>, <<"host", <<"b.example">> >> >>
       /\ HeadersNamed(upstream_log[i].headers, {"x-api-key"}) =
             << <<"x-api-key", <<"client-key">> >> >>

-----------------------------------------------------------------------------
(* SpecWatch: the config file, its watcher thread and reload(), with the   *)
(* watcher thread scheduled fairly and no requests                         *)

MaxWatchWrites == 2

InitWatch ==
    /\ \E c \in ConfigSamples :
          /\ file = Toml(c)
          /\ inner = c
          /\ selectors = Construct(<<>>, c.upstream).heap
          /\ upstream_selector = Construct(<<>>, c.upstream).ptr
    /\ events = 0
    /\ reload = IdleReload
    /\ req = [r \in Requests |-> IdleReq]
    /\ upstream_log = <<>>
    /\ stats = [request_count |-> 0]
    /\ budget = [arrivals |-> 0, writes |-> MaxWatchWrites]
    /\ NoCallers /\ NoOpt /\ NoSse /\ NoCall

NextWatch ==
    \/ \E content \in FileSamples : WriteFile(content)
    \/ ReloadLoad
    \/ ReloadStoreInner
    \/ ReloadStoreSelector

\* the watcher thread runs the callback for a delivered event and reload()
\* runs to its end; nothing obliges anyone to write the file
WatcherFairness ==
    /\ WF_vars(ReloadLoad)
    /\ WF_vars(ReloadStoreInner)
    /\ WF_vars(ReloadStoreSelector)

SpecWatch == InitWatch /\ [][NextWatch]_vars /\ WatcherFairness

\* the published selector is the one UpstreamSelector::new builds from the list
SelectorBuiltFrom(upstreams) ==
    IF upstreams = <<>>
    THEN upstream_selector = None
    ELSE /\ upstream_selector # None
         /\ selectors[Unwrap(upstream_selector)].upstreams = upstreams

\* the close-write events delivered so far, and the calls of reload() so
\* far: each call takes one event off the queue
EventsDelivered == MaxWatchWrites - budget.writes
ReloadCalls == EventsDelivered - events

\* C26: under fairness of the watcher thread every close-write event is
\* eventually followed by a call to reload(); once writes stop with a
\* parseable file, the published Config eventually equals the parsed content
\* and the published selector is built from its upstream list.
C26_EventuallyReloaded ==
    /\ \A k \in 1..MaxWatchWrites : (EventsDelivered >= k) ~> (ReloadCalls >= k)
    /\ \A c \in ConfigSamples :
          <>[](file = Toml(c)) => <>[](inner = c /\ SelectorBuiltFrom(c.upstream))

\* the file was written with another upstream list, the event was taken and
\* the reload has published the parsed Config and a new selector
C26_Witness ==
    /\ budget.writes < MaxWatchWrites
    /\ events = 0
    /\ reload.pc = "idle"
    /\ reload.read = Some(file)
    /\ file.kind = "toml"
    /\ inner = file.config
    /\ Unwrap(reload.old).inner.upstream # inner.upstream
    /\ Unwrap(reload.old).upstream_selector # upstream_selector
    /\ SelectorBuiltFrom(inner.upstream)

-----------------------------------------------------------------------------
(* Claim about the cursor and the counters per request, checked under Spec *)

StepCount(r, name) == Len(SelectSeq(req[r].steps, LAMBDA s : s = name))

\* the optimizer was consulted and declined
Declined(r) == StepCount(r, "try_local_optimization") = 1 /\ req[r].local = None

\* the requests that call next() on selector id in this step
CallingNext(id) ==
    { r \in Requests : /\ req[r].pc = "next"
                       /\ req'[r].pc # "next"
                       /\ req[r].selector = Some(id) }

\* C27: a request answered by the LocalOptimizer leaves every selector
\* cursor and the RequestStats counters unchanged; the cursor advances by
\* exactly one for each request the optimizer declined and for which a
\* selector exists, whatever happens upstream, and by zero otherwise.
C27_CursorPerRequest ==
    [][ /\ \A id \in 1..Len(selectors) :
              selectors'[id].next_index =
                 (selectors[id].next_index + Cardinality(CallingNext(id))) % Modulus
        /\ \A r \in Requests :
              (req[r].pc = "intercept" /\ req'[r].local # None) =>
                 /\ selectors' = selectors
                 /\ stats' = stats
        /\ \A r \in Requests :
              /\ req[r].local # None =>
                    /\ StepCount(r, "selector.next") = 0
                    /\ StepCount(r, "calculate_tokens") = 0
                    /\ req[r].counted = None
              /\ StepCount(r, "selector.next") =
                    IF /\ Declined(r)
                       /\ req[r].selector # None
                       /\ req[r].pc # "next"
                    THEN 1 ELSE 0
      ]_vars

\* one request was answered locally, the other was declined and forwarded,
\* its upstream call failed, and the only selector's cursor stands at one
C27_Witness ==
    \E a, b \in Requests :
       /\ req[a].outcome = "local"
       /\ req[b].outcome = "Proxy request failed"
       /\ StepCount(b, "selector.next") = 1
       /\ Len(selectors) = 1
       /\ selectors[1].next_index = 1
       /\ stats.request_count = 1

-----------------------------------------------------------------------------
(* Claim about the selector across a reload, checked under Spec *)

\* this step is a step of a reload() whose file parsed
ReloadStoring == reload.pc \in {"store_inner", "store_selector"} /\ reload' # reload

\* this step ends a reload() whose file parsed
ReloadEnds == ReloadStoring /\ reload'.pc = "idle"

\* C28: a successful reload whose parsed upstream list equals the published
\* one keeps the same UpstreamSelector and its cursor, even when other
\* fields changed; only a reload that changes the list publishes a selector
\* whose cursor is 0.
C28_SelectorKept ==
    [][ ReloadStoring =>
          LET old == Unwrap(reload.old)
              new_config == Unwrap(reload.new_config)
          IN IF old.inner.upstream = new_config.upstream
             THEN /\ upstream_selector' = old.upstream_selector
                  /\ upstream_selector' = upstream_selector
                  /\ selectors' = selectors
             ELSE ReloadEnds =>
                     IF new_config.upstream = <<>>
                     THEN upstream_selector' = None
                     ELSE /\ upstream_selector' # None
                          /\ Unwrap(upstream_selector') > Len(selectors)
                          /\ selectors'[Unwrap(upstream_selector')] =
                                [upstreams  |-> new_config.upstream,
                                 next_index |-> 0]
      ]_vars

\* a reload that changed the flags but not the upstream list has ended and
\* the selector published before it is still published, its cursor advanced
C28_Witness ==
    /\ reload.pc = "idle"
    /\ reload.new_config = Some(inner)
    /\ Unwrap(reload.old).inner # inner
    /\ Unwrap(reload.old).inner.upstream = inner.upstream
    /\ upstream_selector = Some(1)
    /\ Unwrap(reload.old).upstream_selector = Some(1)
    /\ selectors[1].next_index >= 1
    /\ Len(selectors) = 1

-----------------------------------------------------------------------------
(* Claim about the tuple a request uses while reload() runs, checked under *)
(* Spec                                                                    *)

\* every selector ever constructed was published by the step that built it
PublishedLists == { selectors[id].upstreams : id \in 1..Len(selectors) }

\* the tuple is made of one entry of one published list
FromOneEntry(endpoint, model, api_key, oai_api) ==
    \E upstreams \in PublishedLists : \E k \in 1..Len(upstreams) :
       /\ upstreams[k].endpoint = endpoint
       /\ upstreams[k].model = model
       /\ upstreams[k].oai_api = oai_api
       /\ IF upstreams[k].api_keys = <<>>
          THEN api_key = ""
          ELSE \E j \in 1..Len(upstreams[k].api_keys) : upstreams[k].api_keys[j] = api_key

\* C29: under any interleaving with reload(), the endpoint, model, api_key
\* and mode a request uses are those of one entry of one upstream list that
\* was published; the api_key is one of that entry's api_keys, or "" when it
\* has none; a reload during the request never changes the tuple obtained.
C29_OneEntry ==
    [][ \A r \in Requests :
          /\ req[r].selection # None =>
                LET selection == Unwrap(req[r].selection)
                IN /\ FromOneEntry(selection.endpoint, selection.model,
                                   selection.api_key, selection.oai_api)
                   /\ \A i \in LogOf(req[r].id) :
                         /\ upstream_log[i].endpoint = selection.endpoint
                         /\ upstream_log[i].authorization = <<"Bearer ", selection.api_key>>
                         /\ upstream_log[i].oai_api = selection.oai_api
                         /\ (selection.model # "" /\ upstream_log[i].body.kind = "object") =>
                               upstream_log[i].body.val.model = Some(selection.model)
                         /\ (selection.model # "" /\ upstream_log[i].body.kind = "responses") =>
                               upstream_log[i].body.val.model = selection.model
                   /\ req'[r].id = req[r].id => req'[r].selection = req[r].selection
          /\ \A i \in 1..Len(upstream_log) :
                /\ Len(upstream_log') >= i
                /\ upstream_log'[i] = upstream_log[i]
      ]_vars

\* a request was sent with the second entry of a list that a reload has
\* since replaced
C29_Witness ==
    \E r \in Requests : \E i \in LogOf(req[r].id) :
       /\ req[r].selector = Some(1)
       /\ upstream_selector # Some(1)
       /\ Unwrap(req[r].selection).upstream_idx = 1
       /\ upstream_log[i].authorization = <<"Bearer ", "b1">>
       /\ upstream_log[i].endpoint = "https://b.example/v1"
       /\ reload.pc = "idle"
       /\ reload.new_config = Some(inner)

-----------------------------------------------------------------------------
(* Claim about the two published pointers, checked under Spec *)

\* the upstream list of the published selector, <<>> when none is published
PublishedSelectorList ==
    IF upstream_selector = None THEN <<>>
    ELSE selectors[Unwrap(upstream_selector)].upstreams

\* C30: in every state a request can observe, the states between the two
\* publication steps of a reload included, the upstream list of the
\* published UpstreamSelector equals that of the published Config, and no
\* selector is published exactly when that list is empty.
C30_PublishedConsistent ==
    /\ upstream_selector = None <=> inner.upstream = <<>>
    /\ upstream_selector # None => PublishedSelectorList = inner.upstream

=============================================================================
